---- MODULE Spec2Model ----
(***************************************************************************)
(* A model of the btp full-node service: its construction and shutdown     *)
(* (New, Stop), the admin chain import, the miner control API, the         *)
(* remote-miner API of the proof-of-work engine, the API backend's head    *)
(* rewind and transaction submission.                                      *)
(*                                                                         *)
(* The module holds one set of variables and several specifications, one   *)
(* per subsystem; a specification leaves the other subsystems' variables   *)
(* at rest.                                                                *)
(***************************************************************************)
EXTENDS Integers, Sequences, FiniteSets, TLC

(* ---------------------------------------------------------------------- *)
(* Bounds of the model                                                     *)
(* ---------------------------------------------------------------------- *)

\* database versions range over 0..MaxDbVersion
MaxDbVersion == 3
\* block numbers of the stored chain range over 0..MaxHead
MaxHead == 2
\* the blocks an import file can hold are 1..NumBlocks
NumBlocks == 2
\* an import file holds at most MaxFile items
MaxFile == 4
\* the capacity of the import batch buffer (2500 in the code), scaled down
BatchCap == 2
\* gas prices range over 1..MaxPrice
MaxPrice == 2
\* the number of API calls started in a run
MaxOps == 3
\* the number of price-changing API calls started in a run of the pool
PoolOps == 2
\* the work packages are those of the blocks 1..NumWork
NumWork == 2
\* the number of remote-miner API calls started in a run
MaxPowOps == 2
\* the number of sync cycles, of block imports and of head rewinds in a run
MaxCycles == 2
MaxImports == 2
MaxRewinds == 2
\* each fork of the chain holds ForkLen blocks, the second fork one more
ForkLen == 1
\* the number of inserts and head rewinds started in a run
MaxChainOps == 4
\* the capacity of the ENR updater's head-event channel
newHeadBuffer == 10
\* account and transaction nonces range over 0..MaxNonce
MaxNonce == 2
\* the number of transactions the pool holds, pending and queued
TxSlots == 2
\* the number of pool operations started in a run
MaxTxOps == 3
\* the announced block hashes are 1..NumHashes
NumHashes == 2
\* the number of fetches that may be in flight
FetchCap == 1
\* the number of announces a peer may have under way
PeerQuota == 1
\* the child timestamps tried are within MaxDelta seconds of the parent's and of
\* the point where the adjustment factor reaches its floor
MaxDelta == 6
\* a function declaration has at most MaxInputs inputs
MaxInputs == 2
\* the Scheme and the Path of a URL have at most MaxUrlLen characters each
MaxUrlLen == 3
\* TxPool.Locals lists at most MaxLocals accounts
MaxLocals == 2
\* the storage trie holds keys among 1..MaxKey; a call asks for at most MaxResult entries
MaxKey == 4
MaxResult == 2
\* an ABI document has at most MaxFields entries
MaxFields == 3
\* a run makes at most MaxMsgs ReadMsg and WriteMsg calls
MaxMsgs == 2
\* the transactions are 1..NumTxs
NumTxs == 2
\* the number of transactions the pool holds before it evicts by price
PoolSlots == 1

VARIABLES
    \* --- service construction and shutdown (New, AddLesServer, Stop) ---
    cfg,                \* the Config handed to New: SyncMode, SkipBcVersionCheck
    BlockChainVersion,  \* core.BlockChainVersion, the database version supported
    dbVersion0,         \* the database version stored before New ran
    dbVersion,          \* the stored database version: <<>> when absent, else <<v>>
    storedConfig,       \* the chain config in the database: "none", "old", "new"
    head,               \* number of the canonical head block
    genesisErr,         \* result of core.SetupGenesisBlock: "unset","nil","compat","other"
    rewindTo,           \* ConfigCompatError.RewindTo
    newPc,              \* position of New
    newErr,             \* the error New returned, "nil" when none
    built,              \* the components New has constructed
    calls,              \* the calls New and Stop have made, in order
    lesServer,          \* whether a LES server is attached
    stopPc,             \* number of statements of Stop executed
    dbOpen,             \* whether chainDb is open
    shutdownChan,       \* "open" or "closed"
    \* --- admin chain import (PrivateAdminAPI.ImportChain) ---
    file,               \* the items of the import file: a block, or 0 for bytes
                        \* that do not decode as a block
    invalid,            \* the blocks InsertChain rejects
    known0,             \* the blocks of the chain before the import
    known,              \* the blocks of the chain (BlockChain.HasBlock)
    impPc,              \* position of ImportChain: "load", "batch", "done"
    pos,                \* number of items the stream has decoded
    blocks,             \* the batch buffer
    batch,              \* the batch counter
    index,              \* the block counter
    batches,            \* the batches formed so far and what was done with each
    insertCalls,        \* number of calls of InsertChain
    impRet,             \* what ImportChain returned: "none", "true", "parse", "insert"
    \* --- miner control and transaction pool (api.go, backend, api_backend) ---
    gasPrice,           \* btpereum.gasPrice
    btperbase,          \* btpereum.btperbase, 0 for the zero address
    poolPrice,          \* the transaction pool's minimum gas price
    pool,               \* the transactions in the pool
    submitted,          \* the transactions handed to the pool so far
    sentTx,             \* the transactions handed to SendTx
    threads,            \* the engine's thread count, -1 when CPU mining is disabled
    mining,             \* miner.Mining()
    pendingStarts,      \* the btperbases of the `go miner.Start(eb)` not yet run
    minerCoinbase,      \* the miner's coinbase
    acceptTxs,          \* protocolManager.acceptTxs
    wallet,             \* the first account of the first wallet, 0 when there is none
    clique,             \* whether the engine is clique
    call,               \* per caller, the call in progress and its locals
    last,               \* per caller, what its last completed call did
    opsLeft,            \* the number of calls that can still be started
    \* --- the proof-of-work engine's remote-miner API (GetWork, SubmitWork, ...) ---
    powMode,            \* config.PowMode
    exitCh,             \* the engine's exit channel: "open" or "closed"
    closePc,            \* position of the engine's Close
    remote,             \* the remote sealer loop: "none", "select", "busy", "exited"
    remoteReq,          \* the request the sealer loop is serving
    works,              \* the work packages the sealer holds, by block number
    enq,                \* the number of requests placed on each request channel
    pcall,              \* per caller, the API call in progress
    reply,              \* per caller, the content of its request's result channel
    pret,               \* per caller, what its last completed call returned
    powOpsLeft,         \* the number of API calls that can still be started
    \* --- the API backend's head rewind and the downloader's sync cycles ---
    cycle,              \* the number of the latest sync cycle, 0 before the first
    syncing,            \* a sync cycle is running
    cancelled,          \* the sync cycles whose cancel token is set
    importer,           \* the running cycle's block importer
    imports,            \* the number of imports started
    chainHead,          \* the number of the chain's head block
    shCall,             \* per caller, the rewind call in progress
    shCalls,            \* the number of rewind calls started
    imported,           \* the sync cycles that have started an import
    rewound,            \* the sync cycles cancelled by a call that has begun to rewind
    lateImports,        \* the sync cycles that started an import after such a rewind began
    \* --- the block chain: inserts, reorganisations, rewinds, head events ---
    diff,               \* the difficulty of every block
    stored,             \* the blocks written to the database, the genesis block apart
    cHead,              \* the canonical head block
    canon,              \* the canonical-number index: the canonical block of every number from 1
    badBlocks,          \* the error remembered for every block hash that failed
    ins,                \* the insert in progress: its block, stage and error
    sideEv,             \* the blocks a ChainSideEvent was emitted for
    newHead,            \* the ENR updater's channel of ChainHeadEvents
    upd,                \* the ENR updater: its position and the event it handles; an event
                        \* is marked when the head has moved to a lower number since it was sent
    obs,                \* the event the updater handled last and the head it read for it
    chainOps,           \* the number of inserts and rewinds that can still be started
    \* --- the transaction pool by sender and nonce ---
    acctNonce,          \* the on-chain nonce of every account
    txPending,          \* the pending transactions
    txQueued,           \* the queued transactions
    minGasPrice,        \* the pool's minimum gas price
    txEvents,           \* the transactions a NewTxsEvent was observed for
    lastTx,             \* the last operation on the pool and its outcome
    txOps,              \* the number of pool operations that can still be started
    \* --- the fetcher of announced blocks ---
    fstate,             \* the state of every block hash in the fetcher
    announcers,         \* the peers that announced every hash
    fetchFrom,          \* the peer every hash is being fetched from, "" when none
    lastEv,             \* the last announce or timeout: its peer, its hash, and whether the announce was taken
    \* --- the difficulty calculation ---
    cdIn,               \* the parent header and the two candidate timestamps handed to CalcDifficulty
    cdOut,              \* the two difficulties computed, <<>> before
    \* --- ABI methods ---
    abiFields,          \* the function declarations of the JSON document given to UnmarshalJSON
    Mbtpods,            \* the ABI's methods by name, <<>> before the document is parsed
    sigOut,             \* the method last asked for its signature or its id, and the answer
    \* --- account URLs ---
    url,                \* the account URL under inspection
    urlOut,             \* the last operation on it: its text and what parsing the text gave
    \* --- the RPC endpoints ---
    nodeCfg,            \* the flags the node was started with
    served,             \* per transport, the services registered on its endpoint; <<>> before the node runs
    rpcOut,             \* the last attach or call of a client and what it got
    \* --- shouldPreserve ---
    presIn,             \* the engine, the author of the block, the btperbase field and TxPool.Locals
    presOut,            \* what shouldPreserve answered; "none" before the call
    \* --- storageRangeAt ---
    srTrie,             \* the hashed keys of the storage trie
    srArgs,             \* the start key of the first call and maxResult
    srCur,              \* the start key of the next call; 0 stands for nil
    srGot,              \* the keys returned so far
    srDup,              \* whether a key was returned twice
    srLast,             \* the last call: its start key and its result
    srPc,               \* "call" while the client pages, "done" once NextKey was nil
    \* --- ABI documents, Pack and MbtpodById ---
    pkFields,           \* the entries of the JSON document, in their order
    pkAbi,              \* the parsed ABI: its constructor, its methods and its events
    pkOut,              \* the last Pack or MbtpodById call and what it returned
    \* --- metered message streams ---
    mtVersion,          \* the protocol version of each metered stream; 0 before Init
    mtIn,               \* the inbound meters: packets and traffic of every kind
    mtOut,              \* the outbound meters: packets and traffic of every kind
    mtReads,            \* how many ReadMsg calls returned a message
    mtCalls,            \* how many ReadMsg and WriteMsg calls were made
    mtLast              \* the last call: its stream, its message and whether it failed

lifeVars == <<cfg, BlockChainVersion, dbVersion0, dbVersion, storedConfig, head,
              genesisErr, rewindTo, newPc, newErr, built, calls, lesServer,
              stopPc, dbOpen, shutdownChan>>

importVars == <<file, invalid, known0, known, impPc, pos, blocks, batch, index,
                batches, insertCalls, impRet>>

minerVars == <<gasPrice, btperbase, poolPrice, pool, submitted, sentTx, threads, mining,
               pendingStarts, minerCoinbase, acceptTxs, wallet, clique, call, last,
               opsLeft>>

powVars == <<powMode, exitCh, closePc, remote, remoteReq, works, enq, pcall, reply,
             pret, powOpsLeft>>

syncVars == <<cycle, syncing, cancelled, importer, imports, chainHead, shCall, shCalls,
              imported, rewound, lateImports>>

chainVars == <<diff, stored, cHead, canon, badBlocks, ins, sideEv, newHead, upd, obs,
               chainOps>>

txPoolVars == <<acctNonce, txPending, txQueued, minGasPrice, txEvents, lastTx, txOps>>

fetcherVars == <<fstate, announcers, fetchFrom, lastEv>>

difficultyVars == <<cdIn, cdOut>>

abiVars == <<abiFields, Mbtpods, sigOut>>

urlVars == <<url, urlOut>>

rpcVars == <<nodeCfg, served, rpcOut>>

preserveVars == <<presIn, presOut>>

storageVars == <<srTrie, srArgs, srCur, srGot, srDup, srLast, srPc>>

codecVars == <<pkFields, pkAbi, pkOut>>

meterVars == <<mtVersion, mtIn, mtOut, mtReads, mtCalls, mtLast>>

vars == <<lifeVars, importVars, minerVars, powVars, syncVars, chainVars, txPoolVars, fetcherVars, difficultyVars, abiVars, urlVars, rpcVars, preserveVars, storageVars, codecVars, meterVars>>

\* the variables of the other subsystems
notLife == <<importVars, minerVars, powVars, syncVars, chainVars, txPoolVars, fetcherVars, difficultyVars, abiVars, urlVars, rpcVars, preserveVars, storageVars, codecVars, meterVars>>
notImport == <<lifeVars, minerVars, powVars, syncVars, chainVars, txPoolVars, fetcherVars, difficultyVars, abiVars, urlVars, rpcVars, preserveVars, storageVars, codecVars, meterVars>>
notMiner == <<lifeVars, importVars, powVars, syncVars, chainVars, txPoolVars, fetcherVars, difficultyVars, abiVars, urlVars, rpcVars, preserveVars, storageVars, codecVars, meterVars>>
notPow == <<lifeVars, importVars, minerVars, syncVars, chainVars, txPoolVars, fetcherVars, difficultyVars, abiVars, urlVars, rpcVars, preserveVars, storageVars, codecVars, meterVars>>
notSync == <<lifeVars, importVars, minerVars, powVars, chainVars, txPoolVars, fetcherVars, difficultyVars, abiVars, urlVars, rpcVars, preserveVars, storageVars, codecVars, meterVars>>
notChain == <<lifeVars, importVars, minerVars, powVars, syncVars, txPoolVars, fetcherVars, difficultyVars, abiVars, urlVars, rpcVars, preserveVars, storageVars, codecVars, meterVars>>
notTxPool == <<lifeVars, importVars, minerVars, powVars, syncVars, chainVars, fetcherVars, difficultyVars, abiVars, urlVars, rpcVars, preserveVars, storageVars, codecVars, meterVars>>
notFetcher == <<lifeVars, importVars, minerVars, powVars, syncVars, chainVars, txPoolVars, difficultyVars, abiVars, urlVars, rpcVars, preserveVars, storageVars, codecVars, meterVars>>
notDifficulty == <<lifeVars, importVars, minerVars, powVars, syncVars, chainVars, txPoolVars, fetcherVars, abiVars, urlVars, rpcVars, preserveVars, storageVars, codecVars, meterVars>>
notAbi == <<lifeVars, importVars, minerVars, powVars, syncVars, chainVars, txPoolVars, fetcherVars, difficultyVars, urlVars, rpcVars, preserveVars, storageVars, codecVars, meterVars>>
notUrl == <<lifeVars, importVars, minerVars, powVars, syncVars, chainVars, txPoolVars, fetcherVars, difficultyVars, abiVars, rpcVars, preserveVars, storageVars, codecVars, meterVars>>
notRpc == <<lifeVars, importVars, minerVars, powVars, syncVars, chainVars, txPoolVars, fetcherVars, difficultyVars, abiVars, urlVars, preserveVars, storageVars, codecVars, meterVars>>
notPreserve == <<lifeVars, importVars, minerVars, powVars, syncVars, chainVars, txPoolVars, fetcherVars, difficultyVars, abiVars, urlVars, rpcVars, storageVars, codecVars, meterVars>>
notStorage == <<lifeVars, importVars, minerVars, powVars, syncVars, chainVars, txPoolVars, fetcherVars, difficultyVars, abiVars, urlVars, rpcVars, preserveVars, codecVars, meterVars>>
notCodec == <<lifeVars, importVars, minerVars, powVars, syncVars, chainVars, txPoolVars, fetcherVars, difficultyVars, abiVars, urlVars, rpcVars, preserveVars, storageVars, meterVars>>
notMeter == <<lifeVars, importVars, minerVars, powVars, syncVars, chainVars, txPoolVars, fetcherVars, difficultyVars, abiVars, urlVars, rpcVars, preserveVars, storageVars, codecVars>>

(* ---------------------------------------------------------------------- *)
(* Helpers                                                                 *)
(* ---------------------------------------------------------------------- *)

\* the positions at which call c occurs in log
Positions(log, c) == {i \in 1..Len(log) : log[i] = c}

\* c occurs in log
Called(log, c) == Positions(log, c) # {}

\* every occurrence of b in log is preceded by an occurrence of a
Precedes(log, a, b) ==
    \A j \in Positions(log, b) : \E i \in Positions(log, a) : i < j

(* ====================================================================== *)
(* Service construction: New                                               *)
(* ====================================================================== *)

SyncModes == {"full", "fast", "light", "invalid"}

LifeInit ==
    /\ cfg \in [SyncMode : SyncModes, SkipBcVersionCheck : BOOLEAN]
    /\ BlockChainVersion \in 1..(MaxDbVersion - 1)
    /\ dbVersion \in {<<>>} \cup {<<v>> : v \in 0..MaxDbVersion}
    /\ dbVersion0 = dbVersion
    /\ storedConfig \in {"none", "old"}
    /\ head \in 0..MaxHead
    /\ (storedConfig = "none" => head = 0)
    /\ genesisErr = "unset"
    /\ rewindTo = 0
    /\ newPc = "config"
    /\ newErr = "nil"
    /\ built = {}
    /\ calls = <<>>
    /\ lesServer = FALSE
    /\ stopPc = 0
    /\ dbOpen = FALSE
    /\ shutdownChan = "open"

\* the service before New, with one fixed configuration
LifeQuiet ==
    /\ cfg = [SyncMode |-> "full", SkipBcVersionCheck |-> FALSE]
    /\ BlockChainVersion = 1
    /\ dbVersion = <<>>
    /\ dbVersion0 = <<>>
    /\ storedConfig = "none"
    /\ head = 0
    /\ genesisErr = "unset"
    /\ rewindTo = 0
    /\ newPc = "config"
    /\ newErr = "nil"
    /\ built = {}
    /\ calls = <<>>
    /\ lesServer = FALSE
    /\ stopPc = 0
    /\ dbOpen = FALSE
    /\ shutdownChan = "open"

\* New returns (nil, err)
NewFail(err) ==
    /\ newPc' = "failed"
    /\ newErr' = err

\* New, the configuration checks
NewCheckConfig ==
    /\ newPc = "config"
    /\ IF cfg.SyncMode = "light"
         THEN NewFail("lightsync")
         ELSE IF cfg.SyncMode = "invalid"
                THEN NewFail("invalidmode")
                ELSE newPc' = "opendb" /\ newErr' = newErr
    /\ UNCHANGED <<cfg, BlockChainVersion, dbVersion0, dbVersion, storedConfig, head,
                   genesisErr, rewindTo, built, calls, lesServer, stopPc, dbOpen,
                   shutdownChan>>
    /\ UNCHANGED notLife

\* New, ctx.OpenDatabaseWithFreezer
NewOpenDatabase ==
    /\ newPc = "opendb"
    /\ \E ok \in BOOLEAN :
         IF ok
           THEN /\ dbOpen' = TRUE
                /\ calls' = Append(calls, "OpenDatabaseWithFreezer")
                /\ newPc' = "genesis"
                /\ newErr' = newErr
           ELSE /\ NewFail("opendb")
                /\ UNCHANGED <<dbOpen, calls>>
    /\ UNCHANGED <<cfg, BlockChainVersion, dbVersion0, dbVersion, storedConfig, head,
                   genesisErr, rewindTo, built, lesServer, stopPc, shutdownChan>>
    /\ UNCHANGED notLife

\* the results core.SetupGenesisBlock can give on the database: a compatibility
\* error needs a stored configuration and a head above the block to rewind to
SetupGenesisResults ==
    {[err |-> "nil", to |-> 0], [err |-> "other", to |-> 0]}
      \cup (IF storedConfig = "old"
              THEN {[err |-> "compat", to |-> n] : n \in 0..(head - 1)}
              ELSE {})

\* New, core.SetupGenesisBlock and the test of its error
NewSetupGenesis ==
    /\ newPc = "genesis"
    /\ \E r \in SetupGenesisResults :
         /\ genesisErr' = r.err
         /\ rewindTo' = r.to
         /\ calls' = Append(calls, "SetupGenesisBlock")
         /\ storedConfig' = IF r.err = "nil" THEN "new" ELSE storedConfig
         /\ IF r.err = "other"
              THEN NewFail("genesis")
              ELSE newPc' = "version" /\ newErr' = newErr
    /\ UNCHANGED <<cfg, BlockChainVersion, dbVersion0, dbVersion, head, built,
                   lesServer, stopPc, dbOpen, shutdownChan>>
    /\ UNCHANGED notLife

\* the outcome of the database version check: "reject", "upgrade" or "keep"
VersionCheck_Inclusive(skip, ver, supported) ==
    IF skip THEN "keep"
    ELSE IF ver # <<>> /\ ver[1] >= supported THEN "reject"
    ELSE IF ver = <<>> \/ ver[1] < supported THEN "upgrade"
    ELSE "keep"

VersionCheck(skip, ver, supported) ==
    IF skip THEN "keep"
    ELSE IF ver # <<>> /\ ver[1] > supported THEN "reject"
    ELSE IF ver = <<>> \/ ver[1] < supported THEN "upgrade"
    ELSE "keep"

\* New, rawdb.ReadDatabaseVersion and the version check
NewVersionCheck ==
    /\ newPc = "version"
    /\ LET outcome == VersionCheck(cfg.SkipBcVersionCheck, dbVersion, BlockChainVersion)
       IN  /\ IF outcome = "reject"
                THEN NewFail("version")
                ELSE newPc' = "blockchain" /\ newErr' = newErr
           /\ dbVersion' = IF outcome = "upgrade" THEN <<BlockChainVersion>> ELSE dbVersion
           /\ calls' = IF outcome = "upgrade"
                         THEN Append(calls, "WriteDatabaseVersion")
                         ELSE calls
    /\ UNCHANGED <<cfg, BlockChainVersion, dbVersion0, storedConfig, head, genesisErr,
                   rewindTo, built, lesServer, stopPc, dbOpen, shutdownChan>>
    /\ UNCHANGED notLife

\* New, core.NewBlockChain
NewBlockChain ==
    /\ newPc = "blockchain"
    /\ \E ok \in BOOLEAN :
         IF ok
           THEN /\ built' = built \cup {"BlockChain"}
                /\ calls' = Append(calls, "NewBlockChain")
                /\ newPc' = "rewind"
                /\ newErr' = newErr
           ELSE /\ NewFail("blockchain")
                /\ UNCHANGED <<built, calls>>
    /\ UNCHANGED <<cfg, BlockChainVersion, dbVersion0, dbVersion, storedConfig, head,
                   genesisErr, rewindTo, lesServer, stopPc, dbOpen, shutdownChan>>
    /\ UNCHANGED notLife

\* the calls New makes when SetupGenesisBlock gave a compatibility error
RewindCalls_ConfigFirst == <<"WriteChainConfig", "blockchain.SetHead">>

RewindCalls == <<"blockchain.SetHead", "WriteChainConfig">>

\* New, one call of the rewind on an incompatible configuration upgrade
NewRewind ==
    /\ newPc \in {"rewind", "rewind2"}
    /\ IF genesisErr = "compat"
         THEN LET stmt == RewindCalls[IF newPc = "rewind" THEN 1 ELSE 2]
              IN  /\ calls' = Append(calls, stmt)
                  /\ head' = IF stmt = "blockchain.SetHead" /\ head > rewindTo
                               THEN rewindTo ELSE head
                  /\ storedConfig' = IF stmt = "WriteChainConfig"
                                       THEN "new" ELSE storedConfig
                  /\ newPc' = IF newPc = "rewind" THEN "rewind2" ELSE "rest"
         ELSE /\ newPc' = "rest"
              /\ UNCHANGED <<calls, head, storedConfig>>
    /\ UNCHANGED <<cfg, BlockChainVersion, dbVersion0, dbVersion, genesisErr, rewindTo,
                   newErr, built, lesServer, stopPc, dbOpen, shutdownChan>>
    /\ UNCHANGED notLife

\* New, the rest: bloom indexer, transaction pool, protocol manager, miner, backend
NewRest ==
    /\ newPc = "rest"
    /\ \E ok \in BOOLEAN :
         IF ok
           THEN /\ built' = built \cup {"TxPool", "ProtocolManager", "Miner", "APIBackend"}
                /\ calls' = calls \o <<"bloomIndexer.Start", "NewTxPool",
                                       "NewProtocolManager", "miner.New">>
                /\ newPc' = "done"
                /\ newErr' = newErr
           ELSE /\ built' = built \cup {"TxPool"}
                /\ calls' = calls \o <<"bloomIndexer.Start", "NewTxPool">>
                /\ NewFail("pm")
    /\ UNCHANGED <<cfg, BlockChainVersion, dbVersion0, dbVersion, storedConfig, head,
                   genesisErr, rewindTo, lesServer, stopPc, dbOpen, shutdownChan>>
    /\ UNCHANGED notLife

(* ====================================================================== *)
(* AddLesServer, Stop                                                      *)
(* ====================================================================== *)

\* AddLesServer, on a constructed service that is not being stopped
AddLesServer ==
    /\ newPc = "done"
    /\ stopPc = 0
    /\ ~lesServer
    /\ lesServer' = TRUE
    /\ UNCHANGED <<cfg, BlockChainVersion, dbVersion0, dbVersion, storedConfig, head,
                   genesisErr, rewindTo, newPc, newErr, built, calls, stopPc, dbOpen,
                   shutdownChan>>
    /\ UNCHANGED notLife

\* the statements of Stop, in the order of the code
StopCalls_DbEarly ==
    <<"bloomIndexer.Close", "blockchain.Stop", "engine.Close", "protocolManager.Stop",
      "lesServer.Stop", "txPool.Stop", "chainDb.Close", "miner.Stop", "eventMux.Stop",
      "close(shutdownChan)">>

StopCalls ==
    <<"bloomIndexer.Close", "blockchain.Stop", "engine.Close", "protocolManager.Stop",
      "lesServer.Stop", "txPool.Stop", "miner.Stop", "eventMux.Stop", "chainDb.Close",
      "close(shutdownChan)">>

\* Stop, one statement; lesServer.Stop is called only when a LES server is attached
StopStep ==
    /\ newPc = "done"
    /\ stopPc < Len(StopCalls)
    /\ LET stmt == StopCalls[stopPc + 1]
       IN  /\ calls' = IF stmt = "lesServer.Stop" /\ ~lesServer
                         THEN calls ELSE Append(calls, stmt)
           /\ dbOpen' = IF stmt = "chainDb.Close" THEN FALSE ELSE dbOpen
           /\ shutdownChan' = IF stmt = "close(shutdownChan)" THEN "closed" ELSE shutdownChan
    /\ stopPc' = stopPc + 1
    /\ UNCHANGED <<cfg, BlockChainVersion, dbVersion0, dbVersion, storedConfig, head,
                   genesisErr, rewindTo, newPc, newErr, built, lesServer>>
    /\ UNCHANGED notLife

(* ---------------------------------------------------------------------- *)
(* Properties of New and Stop                                              *)
(* ---------------------------------------------------------------------- *)

\* C1: in every execution of Stop, blockchain.Stop() is called only after
\* protocolManager.Stop(), txPool.Stop() and miner.Stop() have been called.
C1_BlockChainStoppedAfterPeersPoolMiner ==
    \A c \in {"protocolManager.Stop", "txPool.Stop", "miner.Stop"} :
        Precedes(calls, c, "blockchain.Stop")

\* the components Stop stops before it closes the database
StoppedBeforeDb ==
    {"bloomIndexer.Close", "blockchain.Stop", "engine.Close", "protocolManager.Stop",
     "txPool.Stop", "miner.Stop", "eventMux.Stop"}
      \cup (IF lesServer THEN {"lesServer.Stop"} ELSE {})

\* C2: chainDb.Close() is called only after the bloom indexer, the BlockChain, the
\* engine, the protocol manager, the LES server when one is attached, the
\* transaction pool, the miner and the event mux have been stopped, and the
\* shutdown channel is closed only after the database is closed.
C2_ChainDbClosedLast ==
    /\ \A c \in StoppedBeforeDb : Precedes(calls, c, "chainDb.Close")
    /\ Precedes(calls, "chainDb.Close", "close(shutdownChan)")
    /\ (shutdownChan = "closed" => ~dbOpen /\ Called(calls, "chainDb.Close"))
    /\ (stopPc > 0 /\ ~dbOpen => \A c \in StoppedBeforeDb : Called(calls, c))

\* a Stop that ran to its end on a service with a LES server attached
C2_Witness ==
    /\ stopPc = Len(StopCalls)
    /\ lesServer
    /\ shutdownChan = "closed"
    /\ Called(calls, "lesServer.Stop")

\* New has gone past the database version check
PastVersionCheck ==
    \/ newPc \in {"blockchain", "rewind", "rewind2", "rest", "done"}
    \/ newPc = "failed" /\ newErr \in {"version", "blockchain", "pm"}

\* C3: with SkipBcVersionCheck false, a stored version above the supported one makes
\* New return an error with no BlockChain, TxPool or ProtocolManager constructed;
\* an absent or lower one is replaced by the supported version and New goes on; an
\* equal one is left as it is. With SkipBcVersionCheck true the version is neither
\* checked nor written. Before the check the stored version is untouched.
C3_DatabaseVersionCheck ==
    /\ ~PastVersionCheck => dbVersion = dbVersion0 /\ newErr # "version"
    /\ PastVersionCheck /\ cfg.SkipBcVersionCheck =>
          dbVersion = dbVersion0 /\ newErr # "version"
    /\ PastVersionCheck /\ ~cfg.SkipBcVersionCheck =>
          /\ (dbVersion0 # <<>> /\ dbVersion0[1] > BlockChainVersion) =>
                /\ newPc = "failed" /\ newErr = "version"
                /\ built \cap {"BlockChain", "TxPool", "ProtocolManager"} = {}
                /\ dbVersion = dbVersion0
          /\ (dbVersion0 = <<>> \/ dbVersion0[1] < BlockChainVersion) =>
                /\ dbVersion = <<BlockChainVersion>>
                /\ newErr # "version"
          /\ (dbVersion0 # <<>> /\ dbVersion0[1] = BlockChainVersion) =>
                /\ dbVersion = dbVersion0
                /\ newErr # "version"
                /\ ~Called(calls, "WriteDatabaseVersion")

\* New completed after upgrading a database that stored a lower version
C3_Witness ==
    /\ newPc = "done"
    /\ ~cfg.SkipBcVersionCheck
    /\ dbVersion0 # <<>> /\ dbVersion0[1] < BlockChainVersion
    /\ dbVersion = <<BlockChainVersion>>

\* New has returned
NewReturned == newPc \in {"done", "failed"}

\* any other genesis setup error makes New return it before the BlockChain is made
OtherGenesisErrorFails ==
    genesisErr = "other" =>
        /\ newPc = "failed" /\ newErr = "genesis"
        /\ "BlockChain" \notin built
        /\ ~Called(calls, "NewBlockChain")

\* the rewind comes after the BlockChain is made and before the config is written
RewindOrder ==
    /\ Precedes(calls, "NewBlockChain", "blockchain.SetHead")
    /\ Precedes(calls, "blockchain.SetHead", "WriteChainConfig")
    /\ (Called(calls, "WriteChainConfig") => head = rewindTo)

\* C4 as stated: on a ConfigCompatError New does not fail, constructs the BlockChain,
\* rewinds the head to RewindTo and only then writes the chain config; any other
\* genesis setup error makes New return it before the BlockChain is constructed.
C4_CompatErrorNeverFailsNew ==
    /\ genesisErr = "compat" =>
          /\ newPc # "failed"
          /\ RewindOrder
          /\ (NewReturned =>
                /\ "BlockChain" \in built
                /\ head = rewindTo /\ storedConfig = "new")
    /\ OtherGenesisErrorFails

\* C4 (amended): on a ConfigCompatError New does not fail because of that error;
\* unless the database version check or NewBlockChain fails, it constructs the
\* BlockChain, rewinds the head to RewindTo and only after the rewind writes the
\* chain config (New can still fail afterwards, in NewProtocolManager); any other
\* genesis setup error makes New return it before the BlockChain is constructed.
C4_CompatErrorRewindsThenWritesConfig ==
    /\ genesisErr = "compat" =>
          /\ newErr \notin {"genesis"}
          /\ RewindOrder
          /\ (NewReturned /\ newErr \notin {"version", "blockchain"} =>
                /\ "BlockChain" \in built
                /\ Called(calls, "blockchain.SetHead")
                /\ Called(calls, "WriteChainConfig")
                /\ head = rewindTo /\ storedConfig = "new")
    /\ OtherGenesisErrorFails

\* New completed after a ConfigCompatError, the chain rewound and the config written
C4_Witness ==
    /\ newPc = "done"
    /\ genesisErr = "compat"
    /\ head = rewindTo
    /\ Called(calls, "WriteChainConfig")

LifeNext ==
    \/ NewCheckConfig
    \/ NewOpenDatabase
    \/ NewSetupGenesis
    \/ NewVersionCheck
    \/ NewBlockChain
    \/ NewRewind
    \/ NewRest
    \/ AddLesServer
    \/ StopStep

(* ====================================================================== *)
(* PrivateAdminAPI.ImportChain                                             *)
(* ====================================================================== *)

Blocks == 1..NumBlocks

\* the files of at most MaxFile items
Files == UNION {[1..n -> 0..NumBlocks] : n \in 0..MaxFile}

\* the import not started, on an empty file
ImportQuiet ==
    /\ file = <<>>
    /\ invalid = {}
    /\ known0 = {}
    /\ known = {}
    /\ impPc = "load"
    /\ pos = 0
    /\ blocks = <<>>
    /\ batch = 0
    /\ index = 0
    /\ batches = <<>>
    /\ insertCalls = 0
    /\ impRet = "none"

\* ImportChain called on a file, with a chain that holds some blocks already;
\* the blocks of the chain are valid ones
ImportInit ==
    /\ file \in Files
    /\ known0 \in SUBSET Blocks
    /\ invalid \in SUBSET (Blocks \ known0)
    /\ known = known0
    /\ impPc = "load"
    /\ pos = 0
    /\ blocks = <<>>
    /\ batch = 0
    /\ index = 0
    /\ batches = <<>>
    /\ insertCalls = 0
    /\ impRet = "none"

\* the loop that loads a batch: decode items from position p into buffer b until
\* the buffer is full, the stream ends or an item does not decode
RECURSIVE LoadBatch(_, _, _)
LoadBatch(f, p, b) ==
    IF Len(b) >= BatchCap \/ p >= Len(f)
      THEN [blocks |-> b, pos |-> p, err |-> FALSE]
      ELSE IF f[p + 1] = 0
             THEN [blocks |-> b, pos |-> p, err |-> TRUE]
             ELSE LoadBatch(f, p + 1, Append(b, f[p + 1]))

\* ImportChain: load a batch of blocks from the input file
ImportLoad ==
    /\ impPc = "load"
    /\ LET r == LoadBatch(file, pos, blocks)
       IN  /\ blocks' = r.blocks
           /\ pos' = r.pos
           /\ index' = index + (r.pos - pos)
           /\ IF r.err
                THEN impPc' = "done" /\ impRet' = "parse"
                ELSE IF Len(r.blocks) = 0
                       THEN impPc' = "done" /\ impRet' = "true"
                       ELSE impPc' = "batch" /\ impRet' = impRet
    /\ UNCHANGED <<file, invalid, known0, known, batch, batches, insertCalls>>
    /\ UNCHANGED notImport

hasAllBlocks_Any(chain, bs) ==
    \E i \in 1..Len(bs) : bs[i] \in chain

hasAllBlocks(chain, bs) ==
    \A i \in 1..Len(bs) : bs[i] \in chain

\* BlockChain.InsertChain: the blocks are inserted in order up to the first one
\* that fails; the earlier ones are committed
InsertChain(chain, bs) ==
    LET bad == {i \in 1..Len(bs) : bs[i] \in invalid}
        n   == IF bad = {} THEN Len(bs) + 1
                ELSE CHOOSE i \in bad : \A j \in bad : i <= j
    IN  [known |-> chain \cup {bs[i] : i \in 1..(n - 1)}, err |-> bad # {}]

\* ImportChain: skip the batch when all its blocks are known, else import it and
\* reset the buffer
ImportBatch ==
    /\ impPc = "batch"
    /\ IF hasAllBlocks(known, blocks)
         THEN /\ batches' = Append(batches, [blocks |-> blocks, knownBefore |-> known,
                                             kind |-> "skipped"])
              /\ blocks' = <<>>
              /\ batch' = batch + 1
              /\ impPc' = "load"
              /\ UNCHANGED <<known, insertCalls, impRet>>
         ELSE LET r == InsertChain(known, blocks)
              IN  /\ insertCalls' = insertCalls + 1
                  /\ known' = r.known
                  /\ batches' = Append(batches,
                                   [blocks |-> blocks, knownBefore |-> known,
                                    kind |-> IF r.err THEN "failed" ELSE "inserted"])
                  /\ IF r.err
                       THEN /\ impPc' = "done"
                            /\ impRet' = "insert"
                            /\ UNCHANGED <<blocks, batch>>
                       ELSE /\ blocks' = <<>>
                            /\ batch' = batch + 1
                            /\ impPc' = "load"
                            /\ impRet' = impRet
    /\ UNCHANGED <<file, invalid, known0, pos, index>>
    /\ UNCHANGED notImport

ImportNext ==
    \/ ImportLoad
    \/ ImportBatch

(* ---------------------------------------------------------------------- *)
(* Properties of ImportChain                                               *)
(* ---------------------------------------------------------------------- *)

\* the blocks of the batches, one after the other
RECURSIVE Flatten(_)
Flatten(bs) ==
    IF bs = <<>> THEN <<>> ELSE Flatten(SubSeq(bs, 1, Len(bs) - 1)) \o bs[Len(bs)].blocks

BlocksOf(b) == {b.blocks[i] : i \in 1..Len(b.blocks)}

\* the blocks decoded and not yet part of a batch handled
Pending == IF impRet = "insert" THEN <<>> ELSE blocks

\* the safety part of C5
ImportChainSafe ==
    \* file order, every decoded block in exactly one batch
    /\ Flatten(batches) \o Pending = SubSeq(file, 1, pos)
    /\ index = pos
    /\ batch = Cardinality({i \in 1..Len(batches) : batches[i].kind # "failed"})
    \* batches of at most BatchCap blocks
    /\ Len(blocks) <= BatchCap
    /\ \A i \in 1..Len(batches) : Len(batches[i].blocks) \in 1..BatchCap
    \* a batch is skipped, without InsertChain, exactly when all its blocks are known
    /\ \A i \in 1..Len(batches) :
          batches[i].kind = "skipped" <=> BlocksOf(batches[i]) \subseteq batches[i].knownBefore
    /\ insertCalls = Cardinality({i \in 1..Len(batches) : batches[i].kind # "skipped"})
    \* a failing batch ends the import at once with (false, error)
    /\ \A i \in 1..Len(batches) :
          batches[i].kind = "failed" =>
              i = Len(batches) /\ impPc = "done" /\ impRet = "insert"
    /\ (impRet = "insert" => batches # <<>> /\ batches[Len(batches)].kind = "failed")
    \* what was committed stays committed
    /\ known0 \subseteq known
    /\ \A i \in 1..Len(batches) :
          batches[i].kind # "failed" => BlocksOf(batches[i]) \subseteq known
    \* (true, nil) only when every batch was skipped or inserted without error
    /\ (impRet = "true" =>
          /\ pos = Len(file)
          /\ \A i \in 1..Len(batches) : batches[i].kind \in {"skipped", "inserted"}
          /\ \A i \in 1..Len(file) : file[i] \in known)
    /\ (impRet = "parse" => pos < Len(file) /\ file[pos + 1] = 0)
    /\ (impPc = "done" <=> impRet # "none")

\* C5: ImportChain hands the blocks to InsertChain in file order in batches of at
\* most BatchCap blocks, each decoded block in exactly one batch; a batch of known
\* blocks is skipped without InsertChain; a failing batch ends the import with
\* (false, error), no later batch is inserted and the earlier ones stay committed;
\* (true, nil) is returned only when every batch not skipped was inserted without
\* error; and ImportChain returns on every finite file.
C5_ImportChain == []ImportChainSafe /\ <>(impPc = "done")

\* an import that skipped or inserted a first, full batch and failed on the second
C5_Witness ==
    /\ impRet = "insert"
    /\ Len(batches) = 2
    /\ batches[1].kind \in {"skipped", "inserted"}
    /\ batches[1].blocks # batches[2].blocks
    /\ Len(batches[1].blocks) = BatchCap

(* ====================================================================== *)
(* Miner control: StartMining, StopMining, SetGasPrice, Setbtperbase,      *)
(* btperbase; transaction submission: SendTx                               *)
(* ====================================================================== *)

Callers == {"a", "b"}
Prices == 1..MaxPrice
\* the addresses; 0 stands for the zero address common.Address{}
Addrs == {1, 2}
\* the thread counts StartMining is called with
ThreadArgs == {0, 2}
\* a transaction: its identity, its gas price and whether it passes the pool's
\* validation (signature, nonce, balance, intrinsic gas)
Txs == [id : 1..NumTxs, price : Prices, valid : BOOLEAN]

Idle == [op |-> "idle", pc |-> "", arg |-> 0, eb |-> 0, price |-> 0]
NoCall == [op |-> "none", arg |-> 0, found |-> FALSE, setThreads |-> FALSE,
           setPrice |-> FALSE, started |-> FALSE, err |-> "nil"]

\* the service at rest, as New leaves it
MinerQuiet ==
    /\ gasPrice = 1
    /\ btperbase = 0
    /\ poolPrice = 1
    /\ pool = {}
    /\ submitted = {}
    /\ sentTx = {}
    /\ threads = -1
    /\ mining = FALSE
    /\ pendingStarts = <<>>
    /\ minerCoinbase = 0
    /\ acceptTxs = 0
    /\ wallet = 0
    /\ clique = FALSE
    /\ call = [c \in Callers |-> Idle]
    /\ last = [c \in Callers |-> NoCall]
    /\ opsLeft = 0

\* the service as New leaves it: gasPrice and btperbase from config.Miner, the pool's
\* price limit from config.TxPool, CPU mining disabled, the miner not running
MinerInit ==
    /\ gasPrice \in Prices
    /\ btperbase \in Addrs \cup {0}
    /\ poolPrice \in Prices
    /\ pool = {}
    /\ submitted = {}
    /\ sentTx = {}
    /\ threads = -1
    /\ mining = FALSE
    /\ pendingStarts = <<>>
    /\ minerCoinbase = btperbase
    /\ acceptTxs = 0
    /\ wallet \in Addrs \cup {0}
    /\ clique \in BOOLEAN
    /\ call = [c \in Callers |-> Idle]
    /\ last = [c \in Callers |-> NoCall]
    /\ opsLeft = MaxOps

\* caller c starts a call
Begins(c) == call[c].op = "idle" /\ opsLeft > 0

\* caller c is in call op at position pc
At(c, op, pc) == call[c].op = op /\ call[c].pc = pc

\* the call of c returns
Returns(c, summary) ==
    /\ call' = [call EXCEPT ![c] = Idle]
    /\ last' = [last EXCEPT ![c] = summary]

(* ------------------------- the transaction pool ------------------------ *)

\* TxPool.SetGasPrice: the transactions below the new price are dropped, except
\* the local ones
Reprice(txs, price) == {t \in txs : t.local \/ t.price >= price}

\* the cheapest remote transactions of the pool
CheapestRemote(txs) ==
    {t \in txs : ~t.local /\ \A u \in txs : ~u.local => t.price <= u.price}

\* TxPool.AddLocal / AddRemote: a transaction that fails validation is rejected,
\* and so is a remote one below the minimum price; when the pool is full a remote transaction that is not above the
\* cheapest remote one is rejected, else a cheapest remote one makes room; local
\* transactions are never the ones dropped. Gives the pool and whether tx is in it.
AddTx(txs, minPrice, tx, local) ==
    LET t    == [id |-> tx.id, price |-> tx.price, local |-> local]
        full == Cardinality(txs) >= PoolSlots
        low  == CheapestRemote(txs)
    IN  IF ~tx.valid \/ (~local /\ tx.price < minPrice)
          THEN [pool |-> txs, ok |-> FALSE]
        ELSE IF ~full
          THEN [pool |-> txs \cup {t}, ok |-> TRUE]
        ELSE IF low = {}
          THEN (IF local THEN [pool |-> txs \cup {t}, ok |-> TRUE]
                         ELSE [pool |-> txs, ok |-> FALSE])
        ELSE LET victim == CHOOSE v \in low : TRUE
             IN  IF ~local /\ tx.price <= victim.price
                   THEN [pool |-> txs, ok |-> FALSE]
                   ELSE [pool |-> (txs \ {victim}) \cup {t}, ok |-> TRUE]

\* btpAPIBackend.SendTx
SendTx_AsRemote(tx) == AddTx(pool, poolPrice, tx, FALSE)

SendTx(tx) == AddTx(pool, poolPrice, tx, TRUE)

\* a transaction arrives through the API backend
SendTxCall ==
    /\ \E tx \in Txs :
         /\ tx.id \notin submitted
         /\ pool' = SendTx(tx).pool
         /\ sentTx' = sentTx \cup {tx}
         /\ submitted' = submitted \cup {tx.id}
    /\ UNCHANGED <<gasPrice, btperbase, poolPrice, threads, mining, pendingStarts,
                   minerCoinbase, acceptTxs, wallet, clique, call, last, opsLeft>>
    /\ UNCHANGED notMiner

\* a transaction arrives from the network
AddRemoteTx ==
    /\ \E tx \in Txs :
         /\ tx.id \notin submitted
         /\ pool' = AddTx(pool, poolPrice, tx, FALSE).pool
         /\ submitted' = submitted \cup {tx.id}
    /\ UNCHANGED <<gasPrice, btperbase, poolPrice, sentTx, threads, mining, pendingStarts,
                   minerCoinbase, acceptTxs, wallet, clique, call, last, opsLeft>>
    /\ UNCHANGED notMiner

(* ----------------------- PrivateMinerAPI.SetGasPrice ------------------- *)

\* SetGasPrice: the service's gasPrice is set under the lock
SetGasPriceLock(c) ==
    /\ Begins(c)
    /\ \E p \in Prices :
         /\ gasPrice' = p
         /\ call' = [call EXCEPT ![c] = [Idle EXCEPT !.op = "SetGasPrice", !.pc = "pool",
                                                      !.arg = p]]
    /\ opsLeft' = opsLeft - 1
    /\ UNCHANGED <<btperbase, poolPrice, pool, submitted, sentTx, threads, mining,
                   pendingStarts, minerCoinbase, acceptTxs, wallet, clique, last>>
    /\ UNCHANGED notMiner

\* SetGasPrice: txPool.SetGasPrice, and the return
SetGasPricePool(c) ==
    /\ At(c, "SetGasPrice", "pool")
    /\ poolPrice' = call[c].arg
    /\ pool' = Reprice(pool, call[c].arg)
    /\ Returns(c, [NoCall EXCEPT !.op = "SetGasPrice", !.arg = call[c].arg,
                                 !.setPrice = TRUE])
    /\ UNCHANGED <<gasPrice, btperbase, submitted, sentTx, threads, mining, pendingStarts,
                   minerCoinbase, acceptTxs, wallet, clique, opsLeft>>
    /\ UNCHANGED notMiner

(* --------------------------- btpereum.btperbase ------------------------ *)

\* btperbase(): the field is read under the read lock; a non-zero value is returned
EtherbaseRead(c, op) ==
    IF btperbase # 0
      THEN [Idle EXCEPT !.op = op, !.pc = "haveeb", !.eb = btperbase,
                        !.arg = call[c].arg, !.price = call[c].price]
      ELSE [Idle EXCEPT !.op = op, !.pc = "ebauto",
                        !.arg = call[c].arg, !.price = call[c].price]

\* the API's btperbase call (Coinbase, btperbase): the read of the field
EtherbaseCall(c) ==
    /\ Begins(c)
    /\ IF btperbase # 0
         THEN Returns(c, [NoCall EXCEPT !.op = "btperbase", !.arg = btperbase])
         ELSE /\ call' = [call EXCEPT ![c] = EtherbaseRead(c, "btperbase")]
              /\ last' = last
    /\ opsLeft' = opsLeft - 1
    /\ UNCHANGED <<gasPrice, btperbase, poolPrice, pool, submitted, sentTx, threads,
                   mining, pendingStarts, minerCoinbase, acceptTxs, wallet, clique>>
    /\ UNCHANGED notMiner

\* btperbase(): the field was zero; the first account of the first wallet, when
\* there is one, is written to the field under the write lock, else an error
EtherbaseAuto(c) ==
    /\ call[c].op \in {"btperbase", "StartMining"}
    /\ call[c].pc = "ebauto"
    /\ IF wallet # 0
         THEN /\ btperbase' = wallet
              /\ IF call[c].op = "btperbase"
                   THEN Returns(c, [NoCall EXCEPT !.op = "btperbase", !.arg = wallet])
                   ELSE /\ call' = [call EXCEPT ![c].pc = "haveeb", ![c].eb = wallet]
                        /\ last' = last
         ELSE /\ btperbase' = btperbase
              /\ IF call[c].op = "btperbase"
                   THEN Returns(c, [NoCall EXCEPT !.op = "btperbase",
                                                  !.err = "btperbase missing"])
                   ELSE Returns(c, [NoCall EXCEPT !.op = "StartMining",
                                                  !.arg = call[c].arg,
                                                  !.setThreads = ~clique,
                                                  !.setPrice = TRUE,
                                                  !.err = "btperbase missing"])
    /\ UNCHANGED <<gasPrice, poolPrice, pool, submitted, sentTx, threads, mining,
                   pendingStarts, minerCoinbase, acceptTxs, wallet, clique, opsLeft>>
    /\ UNCHANGED notMiner

(* -------------------------- btpereum.Setbtperbase ----------------------- *)

\* Setbtperbase: the field is set under the lock
SetEtherbaseLock(c) ==
    /\ Begins(c)
    /\ \E a \in Addrs \cup {0} :
         /\ btperbase' = a
         /\ call' = [call EXCEPT ![c] = [Idle EXCEPT !.op = "Setbtperbase",
                                                      !.pc = "miner", !.arg = a]]
    /\ opsLeft' = opsLeft - 1
    /\ UNCHANGED <<gasPrice, poolPrice, pool, submitted, sentTx, threads, mining,
                   pendingStarts, minerCoinbase, acceptTxs, wallet, clique, last>>
    /\ UNCHANGED notMiner

\* Setbtperbase: miner.Setbtperbase, and the return
SetEtherbaseMiner(c) ==
    /\ At(c, "Setbtperbase", "miner")
    /\ minerCoinbase' = call[c].arg
    /\ Returns(c, [NoCall EXCEPT !.op = "Setbtperbase", !.arg = call[c].arg])
    /\ UNCHANGED <<gasPrice, btperbase, poolPrice, pool, submitted, sentTx, threads,
                   mining, pendingStarts, acceptTxs, wallet, clique, opsLeft>>
    /\ UNCHANGED notMiner

(* --------------------------- btpereum.StartMining ----------------------- *)

\* the thread count StartMining hands to the engine
EngineThreads(n) == IF n = 0 THEN -1 ELSE n

\* StartMining: the thread count of the engine is updated; clique has no threads
StartMiningThreads(c) ==
    /\ Begins(c)
    /\ \E n \in ThreadArgs :
         /\ threads' = IF clique THEN threads ELSE EngineThreads(n)
         /\ call' = [call EXCEPT ![c] = [Idle EXCEPT !.op = "StartMining",
                                                      !.pc = "ismining", !.arg = n]]
    /\ opsLeft' = opsLeft - 1
    /\ UNCHANGED <<gasPrice, btperbase, poolPrice, pool, submitted, sentTx, mining,
                   pendingStarts, minerCoinbase, acceptTxs, wallet, clique, last>>
    /\ UNCHANGED notMiner

\* StartMining: `if !s.IsMining()`; with the miner running the call returns nil
StartMiningIsMining(c) ==
    /\ At(c, "StartMining", "ismining")
    /\ IF mining
         THEN Returns(c, [NoCall EXCEPT !.op = "StartMining", !.arg = call[c].arg,
                                        !.found = TRUE, !.setThreads = ~clique])
         ELSE /\ call' = [call EXCEPT ![c].pc = "readprice"]
              /\ last' = last
    /\ UNCHANGED <<gasPrice, btperbase, poolPrice, pool, submitted, sentTx, threads,
                   mining, pendingStarts, minerCoinbase, acceptTxs, wallet, clique,
                   opsLeft>>
    /\ UNCHANGED notMiner

\* StartMining: the price is read under the read lock
StartMiningReadPrice(c) ==
    /\ At(c, "StartMining", "readprice")
    /\ call' = [call EXCEPT ![c].pc = "setprice", ![c].price = gasPrice]
    /\ UNCHANGED <<gasPrice, btperbase, poolPrice, pool, submitted, sentTx, threads,
                   mining, pendingStarts, minerCoinbase, acceptTxs, wallet, clique,
                   last, opsLeft>>
    /\ UNCHANGED notMiner

\* StartMining: txPool.SetGasPrice(price)
StartMiningSetPrice(c) ==
    /\ At(c, "StartMining", "setprice")
    /\ poolPrice' = call[c].price
    /\ pool' = Reprice(pool, call[c].price)
    /\ call' = [call EXCEPT ![c].pc = "ebread"]
    /\ UNCHANGED <<gasPrice, btperbase, submitted, sentTx, threads, mining,
                   pendingStarts, minerCoinbase, acceptTxs, wallet, clique, last,
                   opsLeft>>
    /\ UNCHANGED notMiner

\* StartMining: s.btperbase(), the read of the field
StartMiningEtherbase(c) ==
    /\ At(c, "StartMining", "ebread")
    /\ call' = [call EXCEPT ![c] = EtherbaseRead(c, "StartMining")]
    /\ UNCHANGED <<gasPrice, btperbase, poolPrice, pool, submitted, sentTx, threads,
                   mining, pendingStarts, minerCoinbase, acceptTxs, wallet, clique,
                   last, opsLeft>>
    /\ UNCHANGED notMiner

\* accountManager.Find: the signer's wallet is there when eb is the wallet's account
SignerAvailable_Always(eb) == TRUE

SignerAvailable(eb) == wallet # 0 /\ eb = wallet

\* StartMining: under clique the signer must be available; then transactions are
\* accepted and the miner is started in its own goroutine
StartMiningStart(c) ==
    /\ At(c, "StartMining", "haveeb")
    /\ IF clique /\ ~SignerAvailable(call[c].eb)
         THEN /\ Returns(c, [NoCall EXCEPT !.op = "StartMining", !.arg = call[c].arg,
                                           !.setThreads = ~clique, !.setPrice = TRUE,
                                           !.err = "signer missing"])
              /\ UNCHANGED <<acceptTxs, pendingStarts>>
         ELSE /\ acceptTxs' = 1
              /\ pendingStarts' = Append(pendingStarts, call[c].eb)
              /\ Returns(c, [NoCall EXCEPT !.op = "StartMining", !.arg = call[c].arg,
                                           !.setThreads = ~clique, !.setPrice = TRUE,
                                           !.started = TRUE])
    /\ UNCHANGED <<gasPrice, btperbase, poolPrice, pool, submitted, sentTx, threads,
                   mining, minerCoinbase, wallet, clique, opsLeft>>
    /\ UNCHANGED notMiner

\* the goroutine of `go s.miner.Start(eb)`: the coinbase is set, the miner runs
MinerStart ==
    /\ \E i \in 1..Len(pendingStarts) :
         /\ minerCoinbase' = pendingStarts[i]
         /\ pendingStarts' = SubSeq(pendingStarts, 1, i - 1)
                               \o SubSeq(pendingStarts, i + 1, Len(pendingStarts))
    /\ mining' = TRUE
    /\ UNCHANGED <<gasPrice, btperbase, poolPrice, pool, submitted, sentTx, threads,
                   acceptTxs, wallet, clique, call, last, opsLeft>>
    /\ UNCHANGED notMiner

(* --------------------------- btpereum.StopMining ------------------------ *)

\* StopMining: the engine's threads are disabled
StopMiningThreads(c) ==
    /\ Begins(c)
    /\ threads' = IF clique THEN threads ELSE -1
    /\ call' = [call EXCEPT ![c] = [Idle EXCEPT !.op = "StopMining", !.pc = "miner"]]
    /\ opsLeft' = opsLeft - 1
    /\ UNCHANGED <<gasPrice, btperbase, poolPrice, pool, submitted, sentTx, mining,
                   pendingStarts, minerCoinbase, acceptTxs, wallet, clique, last>>
    /\ UNCHANGED notMiner

\* StopMining: miner.Stop, and the return
StopMiningMiner(c) ==
    /\ At(c, "StopMining", "miner")
    /\ mining' = FALSE
    /\ Returns(c, [NoCall EXCEPT !.op = "StopMining", !.setThreads = ~clique])
    /\ UNCHANGED <<gasPrice, btperbase, poolPrice, pool, submitted, sentTx, threads,
                   pendingStarts, minerCoinbase, acceptTxs, wallet, clique, opsLeft>>
    /\ UNCHANGED notMiner

MinerNext ==
    \/ \E c \in Callers : SetGasPriceLock(c)
    \/ \E c \in Callers : SetGasPricePool(c)
    \/ \E c \in Callers : EtherbaseCall(c)
    \/ \E c \in Callers : EtherbaseAuto(c)
    \/ \E c \in Callers : SetEtherbaseLock(c)
    \/ \E c \in Callers : SetEtherbaseMiner(c)
    \/ \E c \in Callers : StartMiningThreads(c)
    \/ \E c \in Callers : StartMiningIsMining(c)
    \/ \E c \in Callers : StartMiningReadPrice(c)
    \/ \E c \in Callers : StartMiningSetPrice(c)
    \/ \E c \in Callers : StartMiningEtherbase(c)
    \/ \E c \in Callers : StartMiningStart(c)
    \/ MinerStart
    \/ \E c \in Callers : StopMiningThreads(c)
    \/ \E c \in Callers : StopMiningMiner(c)

(* ---------------------------------------------------------------------- *)
(* Properties of the miner control                                         *)
(* ---------------------------------------------------------------------- *)

\* C6: a StartMining call that finds the miner running adjusts the engine's thread
\* count, also updates the transaction pool's minimum gas price to the service's
\* gas price, and starts no second miner.
C6_StartMiningWhileMiningUpdatesPrice ==
    \A c \in Callers :
        last[c].op = "StartMining" /\ last[c].found =>
            /\ last[c].setThreads \/ clique
            /\ last[c].setPrice
            /\ ~last[c].started

\* a Setbtperbase call with the non-zero address the field holds has completed
ExplicitlyConfigured ==
    /\ btperbase # 0
    /\ \E c \in Callers : last[c].op = "Setbtperbase" /\ last[c].arg = btperbase

\* C22: once Setbtperbase(X) with a non-zero X has completed, the btperbase field
\* stays X until the next Setbtperbase call: a step that changes the field then
\* is the write of a Setbtperbase call, under every interleaving with btperbase().
C22_ExplicitEtherbaseKept ==
    [][(ExplicitlyConfigured /\ btperbase' # btperbase) =>
          \E c \in Callers : call[c].op = "idle" /\ call'[c].op = "Setbtperbase"]_vars

\* no call is in progress, and a call that set the pool's price has completed
AtRestAfterPriceCalls ==
    /\ \A c \in Callers : call[c].op = "idle"
    /\ \E c \in Callers : last[c].op \in {"SetGasPrice", "StartMining"} /\ last[c].setPrice

\* C23: after any set of concurrent SetGasPrice and StartMining calls has
\* completed, the service's gasPrice equals the minimum gas price last set on
\* the transaction pool.
C23_PricesAgreeAtRest == AtRestAfterPriceCalls => gasPrice = poolPrice

\* the service with its prices settled, before any mining call
MiningInit ==
    /\ MinerInit
    /\ gasPrice = 1
    /\ poolPrice = 1

\* the calls that start and stop the miner and configure its address
MiningNext ==
    \/ \E c \in Callers : StartMiningThreads(c)
    \/ \E c \in Callers : StartMiningIsMining(c)
    \/ \E c \in Callers : StartMiningReadPrice(c)
    \/ \E c \in Callers : StartMiningSetPrice(c)
    \/ \E c \in Callers : StartMiningEtherbase(c)
    \/ \E c \in Callers : EtherbaseAuto(c)
    \/ \E c \in Callers : StartMiningStart(c)
    \/ MinerStart
    \/ \E c \in Callers : StopMiningThreads(c)
    \/ \E c \in Callers : StopMiningMiner(c)
    \/ \E c \in Callers : SetEtherbaseLock(c)
    \/ \E c \in Callers : SetEtherbaseMiner(c)

\* the flag changes from 0 to 1 only, in the step of a StartMining call that
\* hands the miner its start
AcceptTxsSetOnlyByStart ==
    acceptTxs' # acceptTxs =>
        /\ acceptTxs = 0 /\ acceptTxs' = 1
        /\ \E c \in Callers :
             /\ call[c].op = "StartMining" /\ call'[c].op = "idle"
             /\ last'[c].started /\ last'[c].err = "nil"
             /\ Len(pendingStarts') = Len(pendingStarts) + 1

\* a StartMining call that cannot determine a btperbase, or under clique finds no
\* wallet for the signer, returns that error, starts no miner and leaves the flag
FailedStartChangesNothing ==
    \A c \in Callers :
        (call[c].op = "StartMining" /\ call'[c].op = "idle") =>
            /\ (call[c].pc = "ebauto" /\ wallet = 0) => last'[c].err = "btperbase missing"
            /\ (call[c].pc = "haveeb" /\ clique /\ (wallet = 0 \/ call[c].eb # wallet))
                  => last'[c].err = "signer missing"
            /\ last'[c].err # "nil" =>
                  /\ acceptTxs' = acceptTxs
                  /\ pendingStarts' = pendingStarts
                  /\ mining' = mining
                  /\ ~last'[c].started

PoolInit ==
    /\ gasPrice \in Prices
    /\ btperbase = 0
    /\ poolPrice \in Prices
    /\ pool = {}
    /\ submitted = {}
    /\ sentTx = {}
    /\ threads = -1
    /\ mining = FALSE
    /\ pendingStarts = <<>>
    /\ minerCoinbase = btperbase
    /\ acceptTxs = 0
    /\ wallet \in {0, 1}
    /\ clique = FALSE
    /\ call = [c \in Callers |-> Idle]
    /\ last = [c \in Callers |-> NoCall]
    /\ opsLeft = PoolOps

\* the API calls that change the pool's price come from one caller here
PoolCallers == {"a"}

PoolNext ==
    \/ SendTxCall
    \/ AddRemoteTx
    \/ \E c \in PoolCallers : SetGasPriceLock(c)
    \/ \E c \in PoolCallers : SetGasPricePool(c)
    \/ \E c \in PoolCallers : StartMiningThreads(c)
    \/ \E c \in PoolCallers : StartMiningIsMining(c)
    \/ \E c \in PoolCallers : StartMiningReadPrice(c)
    \/ \E c \in PoolCallers : StartMiningSetPrice(c)
    \/ \E c \in PoolCallers : StartMiningEtherbase(c)
    \/ \E c \in PoolCallers : EtherbaseAuto(c)
    \/ \E c \in PoolCallers : StartMiningStart(c)
    \/ MinerStart

\* C10: every transaction handed to SendTx goes to the pool as a local one
\* (AddLocal): each one that passes the pool's validation is in the pool, marked
\* local, and stays there whatever minimum gas price SetGasPrice (or StartMining)
\* sets later and whatever transactions arrive when the pool is full; the pool
\* holds no transaction from SendTx that is not local.
C10_SendTxIsLocalAndKept ==
    /\ \A tx \in sentTx :
          tx.valid => [id |-> tx.id, price |-> tx.price, local |-> TRUE] \in pool
    /\ \A t \in pool : (\E tx \in sentTx : tx.id = t.id) => t.local

\* a transaction from SendTx is in the pool below the pool's minimum gas price,
\* which a SetGasPrice call raised after the transaction was admitted
C10_Witness ==
    /\ \E t \in pool : t.local /\ t.price < poolPrice /\ (\E tx \in sentTx : tx.id = t.id)
    /\ \E c \in Callers : last[c].op = "SetGasPrice" /\ last[c].arg = poolPrice

(* ====================================================================== *)
(* The remote-miner API of the proof-of-work engine: GetWork, SubmitWork,  *)
(* SubmitHashRate                                                          *)
(* ====================================================================== *)

PowModes == {"normal", "test", "fake", "shared"}
Hashes == 1..NumWork
RequestChannels == {"fetchWorkCh", "submitWorkCh", "submitRateCh"}

NoRequest == [op |-> "idle", pc |-> "", hash |-> 0, seal |-> FALSE, sent |-> 0]
NoReturn == [op |-> "none", ret |-> "", sent |-> 0, verdict |-> "none", hash |-> 0,
             seal |-> FALSE, exitClosed |-> FALSE]

\* an engine with no API call made
PowQuiet ==
    /\ powMode = "fake"
    /\ exitCh = "open"
    /\ closePc = "idle"
    /\ remote = "none"
    /\ remoteReq = NoRequest
    /\ works = {}
    /\ enq = [ch \in RequestChannels |-> 0]
    /\ pcall = [c \in Callers |-> NoRequest]
    /\ reply = [c \in Callers |-> "none"]
    /\ pret = [c \in Callers |-> NoReturn]
    /\ powOpsLeft = 0

\* the mode check the three API methods start with
ModeSupported_Any(mode) == TRUE

ModeSupported(mode) == mode \in {"normal", "test"}

\* the engine as constructed: the remote sealer loop runs in the modes that have
\* one; the sealer holds some work packages, the newest being the current one
PowInit ==
    /\ powMode \in PowModes
    /\ exitCh = "open"
    /\ closePc = "idle"
    /\ remote = IF powMode \in {"normal", "test"} THEN "select" ELSE "none"
    /\ remoteReq = NoRequest
    /\ works \in SUBSET Hashes
    /\ enq = [ch \in RequestChannels |-> 0]
    /\ pcall = [c \in Callers |-> NoRequest]
    /\ reply = [c \in Callers |-> "none"]
    /\ pret = [c \in Callers |-> NoReturn]
    /\ powOpsLeft = MaxPowOps

\* the request channel of an API method
ChannelOf(op) ==
    IF op = "GetWork" THEN "fetchWorkCh"
    ELSE IF op = "SubmitWork" THEN "submitWorkCh"
    ELSE "submitRateCh"

\* what a method returns when the mode is not supported
UnsupportedResult(op) == IF op = "GetWork" THEN "not supported" ELSE "false"

\* what a method returns when the exit channel wins the select
ExitResult(op) == IF op = "GetWork" THEN "btpash stopped" ELSE "false"

\* SubmitWork: `err := <-errc; return err == nil`
SubmitWorkResult_Always(err) == "true"

SubmitWorkResult(err) == IF err = "nil" THEN "true" ELSE "false"

\* what a method returns on the reply to its request
ReplyResult(op, r) ==
    IF op = "GetWork" THEN r
    ELSE IF op = "SubmitWork" THEN SubmitWorkResult(r)
    ELSE "true"

\* the API call of c returns
PowReturns(c, ret) ==
    /\ pret' = [pret EXCEPT ![c] = [op |-> pcall[c].op, ret |-> ret,
                                    sent |-> pcall[c].sent, verdict |-> reply[c],
                                    hash |-> pcall[c].hash, seal |-> pcall[c].seal,
                                    exitClosed |-> exitCh = "closed"]]
    /\ pcall' = [pcall EXCEPT ![c] = NoRequest]
    /\ reply' = [reply EXCEPT ![c] = "none"]

\* GetWork, SubmitWork, SubmitHashRate: the call and its mode check
PowCall(c) ==
    /\ pcall[c].op = "idle"
    /\ powOpsLeft > 0
    /\ powOpsLeft' = powOpsLeft - 1
    /\ \E op \in {"GetWork", "SubmitWork", "SubmitHashRate"}, h \in Hashes, ok \in BOOLEAN :
         /\ op # "SubmitWork" => h = 1 /\ ok
         /\ IF ModeSupported(powMode)
              THEN /\ pcall' = [pcall EXCEPT ![c] = [op |-> op, pc |-> "select",
                                                    hash |-> h, seal |-> ok, sent |-> 0]]
                   /\ UNCHANGED <<pret, reply>>
              ELSE /\ pret' = [pret EXCEPT ![c] = [NoReturn EXCEPT !.op = op,
                                                     !.ret = UnsupportedResult(op),
                                                     !.hash = h, !.seal = ok]]
                   /\ UNCHANGED <<pcall, reply>>
    /\ UNCHANGED <<powMode, exitCh, closePc, remote, remoteReq, works, enq>>
    /\ UNCHANGED notPow

\* the select: the request is sent, the sealer loop being there to receive it
PowSend(c) ==
    /\ pcall[c].pc = "select"
    /\ remote = "select"
    /\ remote' = "busy"
    /\ remoteReq' = [pcall[c] EXCEPT !.pc = c]
    /\ enq' = [enq EXCEPT ![ChannelOf(pcall[c].op)] = @ + 1]
    /\ pcall' = [pcall EXCEPT ![c].pc = "wait", ![c].sent = @ + 1]
    /\ UNCHANGED <<powMode, exitCh, closePc, works, reply, pret, powOpsLeft>>
    /\ UNCHANGED notPow

\* the select: the exit channel is ready, either closed or with Close sending on it
PowExit(c) ==
    /\ pcall[c].pc = "select"
    /\ exitCh = "closed" \/ closePc = "sending"
    /\ closePc' = IF exitCh = "open" THEN "unanswered" ELSE closePc
    /\ PowReturns(c, ExitResult(pcall[c].op))
    /\ UNCHANGED <<powMode, exitCh, remote, remoteReq, works, enq, powOpsLeft>>
    /\ UNCHANGED notPow

\* the reply is received from the request's result channel
PowReceive(c) ==
    /\ pcall[c].pc = "wait"
    /\ reply[c] # "none"
    /\ PowReturns(c, ReplyResult(pcall[c].op, reply[c]))
    /\ UNCHANGED <<powMode, exitCh, closePc, remote, remoteReq, works, enq,
                   powOpsLeft>>
    /\ UNCHANGED notPow

\* a work package this many blocks behind the current one is stale
staleThreshold == 1

\* the block of the current work package; 0 when the sealer holds none
CurrentBlock == IF works = {} THEN 0 ELSE CHOOSE h \in works : \A g \in works : g <= h

Stale(h) == h + staleThreshold <= CurrentBlock

\* the sealer verifies a submitted solution against the work packages it holds:
\* the work must exist, the seal must verify and the work must not be stale; a
\* verified solution is still rejected when the miner does not read the result
SubmitVerdicts_None(h, sealOk) == {}

SubmitVerdicts(h, sealOk) ==
    IF h \in works /\ sealOk /\ ~Stale(h) THEN {"nil", "invalid"} ELSE {"invalid"}

\* the sealer loop serves the request it received and replies on its channel
RemoteServe ==
    /\ remote = "busy"
    /\ \E r \in IF remoteReq.op = "GetWork"
                   THEN {IF CurrentBlock # 0 THEN "work" ELSE "no mining work"}
                 ELSE IF remoteReq.op = "SubmitWork"
                   THEN SubmitVerdicts(remoteReq.hash, remoteReq.seal)
                 ELSE {"done"} :
         reply' = [reply EXCEPT ![remoteReq.pc] = r]
    /\ remote' = "select"
    /\ remoteReq' = NoRequest
    /\ UNCHANGED <<powMode, exitCh, closePc, works, enq, pcall, pret, powOpsLeft>>
    /\ UNCHANGED notPow

\* the engine's Close: an error channel is sent on the exit channel
CloseSend ==
    /\ closePc = "idle"
    /\ remote # "none"
    /\ closePc' = "sending"
    /\ UNCHANGED <<powMode, exitCh, remote, remoteReq, works, enq, pcall, reply,
                   pret, powOpsLeft>>
    /\ UNCHANGED notPow

\* the sealer loop receives the exit request, answers it and returns
RemoteExit ==
    /\ remote = "select"
    /\ closePc = "sending"
    /\ remote' = "exited"
    /\ closePc' = "answered"
    /\ UNCHANGED <<powMode, exitCh, remoteReq, works, enq, pcall, reply, pret,
                   powOpsLeft>>
    /\ UNCHANGED notPow

\* the engine's Close: the exit channel is closed once the sealer loop has answered
CloseExitCh ==
    /\ closePc = "answered"
    /\ exitCh' = "closed"
    /\ closePc' = "done"
    /\ UNCHANGED <<powMode, remote, remoteReq, works, enq, pcall, reply, pret,
                   powOpsLeft>>
    /\ UNCHANGED notPow

PowNext ==
    \/ \E c \in Callers : PowCall(c)
    \/ \E c \in Callers : PowSend(c)
    \/ \E c \in Callers : PowExit(c)
    \/ \E c \in Callers : PowReceive(c)
    \/ RemoteServe
    \/ CloseSend
    \/ RemoteExit
    \/ CloseExitCh

\* the number of API calls started so far
PowCallsStarted == MaxPowOps - powOpsLeft

\* C7: SubmitWork returns true if and only if the sealer reported no error on the
\* submission's result channel; a submission with an invalid seal, for a stale
\* work package or for a work package the sealer does not hold returns false;
\* a call enqueues at most one submission.
C7_SubmitWorkTrueIffAccepted ==
    /\ \A c \in Callers :
         /\ pcall[c].sent <= 1
         /\ pret[c].op = "SubmitWork" =>
              /\ pret[c].ret \in {"true", "false"}
              /\ (pret[c].ret = "true") <=> (pret[c].verdict = "nil")
              /\ pret[c].ret = "true" =>
                   /\ pret[c].seal
                   /\ pret[c].hash \in works
                   /\ pret[c].hash + staleThreshold > CurrentBlock
              /\ pret[c].sent <= 1
    /\ enq["submitWorkCh"] <= PowCallsStarted

\* one submission was accepted and returned true, another had a bad seal, was
\* refused by the sealer and returned false
C7_Witness ==
    /\ pret["a"].op = "SubmitWork" /\ pret["a"].ret = "true" /\ pret["a"].sent = 1
    /\ pret["b"].op = "SubmitWork" /\ pret["b"].ret = "false"
    /\ pret["b"].verdict = "invalid" /\ ~pret["b"].seal

\* what a failed call returns: an error from GetWork, false from the two others
FailedWith(c, err) ==
    /\ pret[c].op = "GetWork" => pret[c].ret = err
    /\ pret[c].op \in {"SubmitWork", "SubmitHashRate"} => pret[c].ret = "false"

\* in a mode other than normal and test every call fails with nothing enqueued
UnsupportedModeFails ==
    powMode \notin {"normal", "test"} =>
        /\ \A ch \in RequestChannels : enq[ch] = 0
        /\ \A c \in Callers : pcall[c].op = "idle" /\ pret[c].sent = 0
        /\ \A c \in Callers : FailedWith(c, "not supported")

\* a call whose request was not accepted by the time the exit channel is closed
\* returns the stopped error or false, and places no request
ClosedExitFails ==
    \A c \in Callers :
        (exitCh = "closed" /\ pcall[c].pc = "select" /\ pcall'[c] # pcall[c]) =>
            /\ pcall'[c].op = "idle"
            /\ pret'[c].op = pcall[c].op
            /\ pret'[c].sent = 0
            /\ pret'[c].op = "GetWork" => pret'[c].ret = "btpash stopped"
            /\ pret'[c].op \in {"SubmitWork", "SubmitHashRate"} => pret'[c].ret = "false"
            /\ enq' = enq

\* C8: when the mode is neither normal nor test, GetWork returns the 'not
\* supported' error and SubmitWork and SubmitHashRate return false, no request
\* being placed on a request channel; when the exit channel is closed before the
\* request is accepted, GetWork returns the stopped error and the two others
\* return false, no request being placed.
C8_UnservedCallsFailWithoutEnqueuing ==
    /\ []UnsupportedModeFails
    /\ [][ClosedExitFails]_vars

\* with the engine closed, a GetWork call returned the stopped error and a
\* SubmitWork call returned false, neither having placed a request
C8_Witness ==
    /\ exitCh = "closed"
    /\ pret["a"].op = "GetWork" /\ pret["a"].ret = "btpash stopped"
    /\ pret["a"].exitClosed /\ pret["a"].sent = 0
    /\ pret["b"].op = "SubmitWork" /\ pret["b"].ret = "false"
    /\ pret["b"].exitClosed /\ pret["b"].sent = 0
    /\ \A ch \in RequestChannels : enq[ch] = 0

\* an engine with a sealer loop or without one, the sealer holding every work
\* package
PowFairInit ==
    /\ PowInit
    /\ powMode \in {"normal", "fake"}
    /\ works = Hashes

\* the steps of the API call of c once it has passed the mode check
PowCallSteps(c) == PowSend(c) \/ PowExit(c) \/ PowReceive(c)

\* the steps of the sealer loop
RemoteSteps == RemoteServe \/ RemoteExit

NoRewind == [i |-> 0, sub |-> "", number |-> 0, target |-> 0, cancelDone |-> FALSE]

\* a node that never synchronises nor rewinds
SyncQuiet ==
    /\ cycle = 0
    /\ syncing = FALSE
    /\ cancelled = {}
    /\ importer = "none"
    /\ imports = 0
    /\ chainHead = 0
    /\ shCall = [c \in Callers |-> NoRewind]
    /\ shCalls = MaxRewinds
    /\ imported = {}
    /\ rewound = {}
    /\ lateImports = {}

SyncInit ==
    /\ cycle = 0
    /\ syncing = FALSE
    /\ cancelled = {}
    /\ importer = "none"
    /\ imports = 0
    /\ chainHead = 0
    /\ shCall = [c \in Callers |-> NoRewind]
    /\ shCalls = 0
    /\ imported = {}
    /\ rewound = {}
    /\ lateImports = {}

\* the downloader starts a sync cycle with a fresh cancel token
SyncStart ==
    /\ ~syncing
    /\ importer = "none"
    /\ cycle < MaxCycles
    /\ cycle' = cycle + 1
    /\ syncing' = TRUE
    /\ importer' = "waiting"
    /\ UNCHANGED <<cancelled, imports, chainHead, shCall, shCalls, imported,
                   rewound, lateImports>>
    /\ UNCHANGED notSync

\* cooperative cancellation: the importer looks at its cycle's token before the
\* next import and returns when the token is set
ImporterCheck ==
    /\ importer = "waiting"
    /\ importer' = IF cycle \in cancelled THEN "none" ELSE "checked"
    /\ syncing' = (cycle \notin cancelled)
    /\ UNCHANGED <<cycle, cancelled, imports, chainHead, shCall, shCalls, imported,
                   rewound, lateImports>>
    /\ UNCHANGED notSync

\* the importer starts inserting the blocks it holds
ImporterStart ==
    /\ importer = "checked"
    /\ imports < MaxImports
    /\ imports' = imports + 1
    /\ importer' = "importing"
    /\ imported' = imported \cup {cycle}
    /\ lateImports' = IF cycle \in rewound THEN lateImports \cup {cycle} ELSE lateImports
    /\ UNCHANGED <<cycle, syncing, cancelled, chainHead, shCall, shCalls, rewound>>
    /\ UNCHANGED notSync

\* the insertion ends, the head having moved when the blocks were new
ImporterDone ==
    /\ importer = "importing"
    /\ importer' = "waiting"
    /\ \E h \in {chainHead, chainHead + 1} :
         /\ h <= MaxHead
         /\ chainHead' = h
    /\ UNCHANGED <<cycle, syncing, cancelled, imports, shCall, shCalls, imported,
                   rewound, lateImports>>
    /\ UNCHANGED notSync

\* the sync cycle ends with nothing left to import
SyncDone ==
    /\ importer = "checked"
    /\ importer' = "none"
    /\ syncing' = FALSE
    /\ UNCHANGED <<cycle, cancelled, imports, chainHead, shCall, shCalls, imported,
                   rewound, lateImports>>
    /\ UNCHANGED notSync

\* the statements of the backend's Sbtpead, in order
SbtpeadCalls_RewindFirst == <<"blockchain.Sbtpead", "downloader.Cancel">>

SbtpeadCalls == <<"downloader.Cancel", "blockchain.Sbtpead">>

\* the position after a statement of Sbtpead: the next one, or the return
SbtpeadAfter(c) ==
    IF shCall[c].i < Len(SbtpeadCalls)
      THEN [shCall[c] EXCEPT !.i = @ + 1, !.sub = "begin"]
      ELSE NoRewind

\* Sbtpead(number) is called
SbtpeadCall(c) ==
    /\ shCall[c].i = 0
    /\ shCalls < MaxRewinds
    /\ shCalls' = shCalls + 1
    /\ \E n \in 0..MaxHead :
         shCall' = [shCall EXCEPT ![c] = [i |-> 1, sub |-> "begin", number |-> n,
                                          target |-> 0, cancelDone |-> FALSE]]
    /\ UNCHANGED <<cycle, syncing, cancelled, importer, imports, chainHead, imported,
                   rewound, lateImports>>
    /\ UNCHANGED notSync

\* downloader.Cancel: the running cycle's cancel token is set
CancelToken(c) ==
    /\ shCall[c].i > 0
    /\ SbtpeadCalls[shCall[c].i] = "downloader.Cancel"
    /\ shCall[c].sub = "begin"
    /\ cancelled' = IF syncing THEN cancelled \cup {cycle} ELSE cancelled
    /\ shCall' = [shCall EXCEPT ![c].sub = "wait",
                                ![c].target = IF syncing THEN cycle ELSE 0]
    /\ UNCHANGED <<cycle, syncing, importer, imports, chainHead, shCalls, imported,
                   rewound, lateImports>>
    /\ UNCHANGED notSync

\* downloader.Cancel: it returns once the cycle's importer has returned
CancelWait(c) ==
    /\ shCall[c].i > 0
    /\ SbtpeadCalls[shCall[c].i] = "downloader.Cancel"
    /\ shCall[c].sub = "wait"
    /\ importer = "none"
    /\ LET after == SbtpeadAfter(c)
       IN  shCall' = [shCall EXCEPT ![c] = [after EXCEPT !.cancelDone = after.i > 0]]
    /\ UNCHANGED <<cycle, syncing, cancelled, importer, imports, chainHead, shCalls,
                   imported, rewound, lateImports>>
    /\ UNCHANGED notSync

\* blockchain.Sbtpead starts rewinding
RewindStart(c) ==
    /\ shCall[c].i > 0
    /\ SbtpeadCalls[shCall[c].i] = "blockchain.Sbtpead"
    /\ shCall[c].sub = "begin"
    /\ rewound' = rewound \cup (cancelled \cap {shCall[c].target})
    /\ shCall' = [shCall EXCEPT ![c].sub = "rewinding"]
    /\ UNCHANGED <<cycle, syncing, cancelled, importer, imports, chainHead, shCalls,
                   imported, lateImports>>
    /\ UNCHANGED notSync

\* blockchain.Sbtpead has rewound the chain to the block of the given number
RewindDone(c) ==
    /\ shCall[c].i > 0
    /\ SbtpeadCalls[shCall[c].i] = "blockchain.Sbtpead"
    /\ shCall[c].sub = "rewinding"
    /\ chainHead' = IF shCall[c].number < chainHead THEN shCall[c].number ELSE chainHead
    /\ shCall' = [shCall EXCEPT ![c] = SbtpeadAfter(c)]
    /\ UNCHANGED <<cycle, syncing, cancelled, importer, imports, shCalls, imported,
                   rewound, lateImports>>
    /\ UNCHANGED notSync

SyncNext ==
    \/ SyncStart
    \/ ImporterCheck
    \/ ImporterStart
    \/ ImporterDone
    \/ SyncDone
    \/ \E c \in Callers : SbtpeadCall(c)
    \/ \E c \in Callers : CancelToken(c)
    \/ \E c \in Callers : CancelWait(c)
    \/ \E c \in Callers : RewindStart(c)
    \/ \E c \in Callers : RewindDone(c)

G == [f |-> "G", n |-> 0]

ChainBlocks ==
    {[f |-> "A", n |-> i] : i \in 1..ForkLen} \cup {[f |-> "B", n |-> i] : i \in 1..(ForkLen + 1)}

Parent(b) == IF b.n = 1 THEN G ELSE [b EXCEPT !.n = @ - 1]

\* the blocks from number 1 up to b
RECURSIVE ChainTo(_)
ChainTo(b) == IF b = G THEN <<>> ELSE Append(ChainTo(Parent(b)), b)

\* total difficulty
RECURSIVE TD(_)
TD(b) == IF b = G THEN 1 ELSE TD(Parent(b)) + diff[b]

NoInsert == [b |-> G, stage |-> "Idle", err |-> "", checks |-> 0]
NoEvent == [pc |-> "select", ev |-> [b |-> G, lowered |-> FALSE]]

\* a chain that nothing is inserted into
ChainQuiet ==
    /\ diff = [b \in ChainBlocks |-> 1]
    /\ stored = {}
    /\ cHead = G
    /\ canon = <<>>
    /\ badBlocks = [b \in ChainBlocks |-> ""]
    /\ ins = NoInsert
    /\ sideEv = {}
    /\ newHead = <<>>
    /\ upd = NoEvent
    /\ obs = [ev |-> NoEvent.ev, head |-> G]
    /\ chainOps = 0

ChainInit ==
    /\ diff \in [ChainBlocks -> {1, 2}]
    /\ stored = {}
    /\ cHead = G
    /\ canon = <<>>
    /\ badBlocks = [b \in ChainBlocks |-> ""]
    /\ ins = NoInsert
    /\ sideEv = {}
    /\ newHead = <<>>
    /\ upd = NoEvent
    /\ obs = [ev |-> NoEvent.ev, head |-> G]
    /\ chainOps = MaxChainOps

\* InsertChain receives a block that is not stored and whose parent is
InsertBegin(b) ==
    /\ ins.stage = "Idle"
    /\ chainOps > 0
    /\ b \notin stored
    /\ Parent(b) \in stored \cup {G}
    /\ ins' = [b |-> b, stage |-> "Received", err |-> "", checks |-> 0]
    /\ chainOps' = chainOps - 1
    /\ UNCHANGED <<diff, stored, cHead, canon, badBlocks, sideEv, newHead, upd, obs>>
    /\ UNCHANGED notChain

\* the stages of validation, each with the stage it leads to
NextStage == [Received |-> "HeaderValid", HeaderValid |-> "BodyValid", BodyValid |-> "StateValid"]

\* the error remembered for a block hash, "" for none
Remembered_None(b) == ""

Remembered(b) == badBlocks[b]

\* the new tip wins on a strictly greater total difficulty
Heavier_OrEqual(tdNew, tdHead) == tdNew >= tdHead

Heavier(tdNew, tdHead) == tdNew > tdHead

\* equal total difficulty: the lower block number wins; at the same number the
\* current head stays unless it is not to be preserved and the new block is, or
\* the policy picks the new block
TieBreak(b, h, currentPreserve, blockPreserve, pick) ==
    IF b.n < h.n THEN TRUE
    ELSE IF b.n = h.n THEN ~currentPreserve /\ (blockPreserve \/ pick)
    ELSE FALSE

\* the head moves to a lower number: the head events under way are marked
MarkLowered(events) == [i \in DOMAIN events |-> [events[i] EXCEPT !.lowered = TRUE]]

\* the block is written; it becomes the head when it wins, the canonical-number
\* index being rewritten and a ChainSideEvent emitted for every displaced block
WriteBlock(b, reorg) ==
    /\ stored' = stored \cup {b}
    /\ cHead' = IF reorg THEN b ELSE cHead
    /\ canon' = IF reorg THEN ChainTo(b) ELSE canon
    /\ sideEv' = IF reorg
                   THEN sideEv \cup {canon[i] : i \in {j \in DOMAIN canon : canon[j].f # b.f}}
                   ELSE sideEv
    /\ IF reorg /\ b.n < cHead.n
         THEN newHead' = MarkLowered(newHead) /\ upd' = [upd EXCEPT !.ev.lowered = TRUE]
         ELSE UNCHANGED <<newHead, upd>>

\* one stage of the insert
InsertStep ==
    /\ ins.stage \notin {"Idle"}
    /\ \/ /\ ins.stage = "Received"
          /\ Remembered(ins.b) # ""
          /\ ins' = [ins EXCEPT !.stage = "Failed", !.err = Remembered(ins.b)]
          /\ UNCHANGED <<stored, cHead, canon, badBlocks, sideEv, newHead, upd>>
       \/ /\ ins.stage \in DOMAIN NextStage
          /\ ins.stage = "Received" => Remembered(ins.b) = ""
          /\ \E valid \in BOOLEAN :
               IF valid
                 THEN /\ ins' = [ins EXCEPT !.stage = NextStage[ins.stage], !.checks = @ + 1]
                      /\ badBlocks' = badBlocks
                 ELSE /\ ins' = [ins EXCEPT !.stage = "Failed", !.err = ins.stage,
                                            !.checks = @ + 1]
                      /\ badBlocks' = [badBlocks EXCEPT ![ins.b] = ins.stage]
          /\ UNCHANGED <<stored, cHead, canon, sideEv, newHead, upd>>
       \/ /\ ins.stage = "StateValid"
          /\ \E cp, bp, pick \in BOOLEAN :
               WriteBlock(ins.b, \/ Heavier(TD(ins.b), TD(cHead))
                                 \/ /\ TD(ins.b) = TD(cHead)
                                    /\ TieBreak(ins.b, cHead, cp, bp, pick))
          /\ ins' = [ins EXCEPT !.stage = "Committed"]
          /\ UNCHANGED badBlocks
       \/ /\ ins.stage = "Committed"
          /\ Len(newHead) < newHeadBuffer
          /\ newHead' = IF cHead = ins.b
                          THEN Append(newHead, [b |-> ins.b, lowered |-> FALSE])
                          ELSE newHead
          /\ ins' = NoInsert
          /\ UNCHANGED <<stored, cHead, canon, badBlocks, sideEv, upd>>
       \/ /\ ins.stage = "Failed"
          /\ ins' = NoInsert
          /\ UNCHANGED <<stored, cHead, canon, badBlocks, sideEv, newHead, upd>>
    /\ UNCHANGED <<diff, obs, chainOps>>
    /\ UNCHANGED notChain

\* blockchain.Sbtpead(n): the canonical chain is cut back to the block of number n
ChainSbtpead(n) ==
    /\ ins.stage = "Idle"
    /\ chainOps > 0
    /\ n < cHead.n
    /\ chainOps' = chainOps - 1
    /\ cHead' = IF n = 0 THEN G ELSE canon[n]
    /\ canon' = SubSeq(canon, 1, n)
    /\ stored' = stored \ {canon[i] : i \in (n + 1)..Len(canon)}
    /\ newHead' = MarkLowered(newHead)
    /\ upd' = [upd EXCEPT !.ev.lowered = TRUE]
    /\ UNCHANGED <<diff, badBlocks, ins, sideEv, obs>>
    /\ UNCHANGED notChain

\* currentbtpEntry: the entry is computed from the chain's head at the time
currentbtpEntry_Stale == G

currentbtpEntry == cHead

\* the ENR updater: it takes a head event from its channel, then sets the entry
startbtpEntryUpdate ==
    /\ \/ /\ upd.pc = "select"
          /\ newHead # <<>>
          /\ upd' = [pc |-> "set", ev |-> Head(newHead)]
          /\ newHead' = Tail(newHead)
          /\ obs' = obs
       \/ /\ upd.pc = "set"
          /\ obs' = [ev |-> upd.ev, head |-> currentbtpEntry]
          /\ upd' = NoEvent
          /\ newHead' = newHead
    /\ UNCHANGED <<diff, stored, cHead, canon, badBlocks, ins, sideEv, chainOps>>
    /\ UNCHANGED notChain

\* a head event is sent for a block that is stored and is the canonical head
EmittedAfterPersisted ==
    Len(newHead') > Len(newHead) =>
        LET e == newHead'[Len(newHead')].b
        IN  e = cHead /\ e \in stored /\ canon[e.n] = e

\* C11 as stated: a ChainHeadEvent is emitted only after its block was persisted as
\* the canonical head, and the updater never reads a head older than the block of
\* the event it is handling.
C11_ObservedHeadNeverOlder ==
    /\ [][EmittedAfterPersisted]_vars
    /\ [](obs.head.n >= obs.ev.b.n)

\* C11: a ChainHeadEvent is emitted only after its block was persisted as the
\* canonical head; the updater reads a head that is not older than the block of
\* the event it is handling unless the head has moved to a block of a lower
\* number since the event was sent.
C11_ObservedHeadNotOlderUnlessLowered ==
    /\ [][EmittedAfterPersisted]_vars
    /\ [](obs.ev.lowered \/ obs.head.n >= obs.ev.b.n)

\* the updater handled the event of a block and read a head that had moved on
C11_Witness ==
    /\ obs.ev.b.n >= 1
    /\ ~obs.ev.lowered
    /\ obs.head.n > obs.ev.b.n

\* the blocks of the canonical chain that are not on the chain to b
Displaced(b) == {canon[i] : i \in {j \in DOMAIN canon : canon[j] \notin {b} \cup {ChainTo(b)[k] : k \in 1..b.n}}}

\* the step that writes the block of the insert
Writes == ins.stage = "StateValid" /\ ins'.stage = "Committed"

\* C13: when a block is written, it becomes the head if its total difficulty is
\* strictly greater than the head's and does not if it is smaller; at equal total
\* difficulty only a block of no higher number can replace the head; the
\* canonical-number index always is the chain to the head, and when the head
\* switches to a fork a ChainSideEvent has been emitted for every displaced block.
C13_HeadByTotalDifficulty ==
    /\ [][Writes =>
            /\ TD(ins.b) > TD(cHead) => cHead' = ins.b
            /\ TD(ins.b) < TD(cHead) => cHead' = cHead
            /\ cHead' \in {ins.b, cHead}
            /\ (cHead' = ins.b /\ TD(ins.b) = TD(cHead)) => ins.b.n <= cHead.n
            /\ cHead' = ins.b => Displaced(ins.b) \subseteq sideEv']_vars
    /\ [](canon = ChainTo(cHead))

\* the longer fork has replaced the head of the other fork, whose blocks all got
\* a ChainSideEvent
C13_Witness ==
    /\ cHead = [f |-> "B", n |-> ForkLen + 1]
    /\ TD(cHead) > TD([f |-> "A", n |-> ForkLen])
    /\ {[f |-> "A", n |-> i] : i \in 1..ForkLen} \subseteq sideEv
    /\ \A i \in 1..ForkLen : diff[[f |-> "A", n |-> i]] = diff[[f |-> "B", n |-> i]]

\* the stages an insert moves through
StageEdges ==
    {<<"Idle", "Received">>, <<"Received", "HeaderValid">>, <<"HeaderValid", "BodyValid">>,
     <<"BodyValid", "StateValid">>, <<"StateValid", "Committed">>, <<"Committed", "Idle">>,
     <<"Received", "Failed">>, <<"HeaderValid", "Failed">>, <<"BodyValid", "Failed">>,
     <<"Failed", "Idle">>}

ChainNext ==
    \/ \E b \in ChainBlocks : InsertBegin(b)
    \/ InsertStep
    \/ \E n \in 0..ForkLen : ChainSbtpead(n)
    \/ startbtpEntryUpdate

(* ====================================================================== *)
(* The transaction pool by sender and nonce: admission, replacement,       *)
(* eviction, repricing and rebasing on a new block                         *)
(* ====================================================================== *)

TxPrices == {10, 11, 12}
TxSpace == [from : Addrs, n : 0..MaxNonce, price : TxPrices]

\* the price bump a replacement needs, in percent
priceBump == 10

NoTx == [op |-> "none", tx |-> [from |-> 1, n |-> 0, price |-> 10], valid |-> FALSE,
         ok |-> FALSE, demoted |-> 0]

\* a pool nothing is sent to
TxPoolQuiet ==
    /\ acctNonce = [a \in Addrs |-> 0]
    /\ txPending = {}
    /\ txQueued = {}
    /\ minGasPrice = 10
    /\ txEvents = {}
    /\ lastTx = NoTx
    /\ txOps = 0

TxPoolInit ==
    /\ acctNonce = [a \in Addrs |-> 0]
    /\ txPending = {}
    /\ txQueued = {}
    /\ minGasPrice = 10
    /\ txEvents = {}
    /\ lastTx = NoTx
    /\ txOps = MaxTxOps

\* a replacement is accepted at a price of at least old * (1 + priceBump percent)
PriceBumpOK_AnyHigher(old, new) == new > old

PriceBumpOK(old, new) == new * 100 >= old * (100 + priceBump)

\* the transactions of P that are executable: those whose sender's nonces from
\* the account nonce up to theirs are all in P
Executable(P, nonces) ==
    {t \in P : \A k \in nonces[t.from]..t.n : \E u \in P : u.from = t.from /\ u.n = k}

\* pending transactions that follow a gap are moved to the queue
Demote(P, Q, nonces) ==
    [pending |-> Executable(P, nonces), queued |-> Q \cup (P \ Executable(P, nonces))]

\* queued transactions that have become contiguous are moved to pending
Promote(P, Q, nonces) ==
    [pending |-> Executable(P \cup Q, nonces), queued |-> (P \cup Q) \ Executable(P \cup Q, nonces)]

\* the pool after an operation, with its outcome recorded
TxPoolBecomes(pq, op, tx, valid, ok) ==
    /\ txPending' = pq.pending
    /\ txQueued' = pq.queued
    /\ lastTx' = [op |-> op, tx |-> tx, valid |-> valid, ok |-> ok,
                  demoted |-> Cardinality(txPending \cap pq.queued)]

\* admission of a transaction: replacement on a nonce collision, eviction of a
\* cheapest transaction when the pool is full, then promotion
TxAdd(tx, valid) ==
    LET all  == txPending \cup txQueued
        olds == {t \in all : t.from = tx.from /\ t.n = tx.n}
        low  == {t \in all : \A u \in all : t.price <= u.price}
        same == [pending |-> txPending, queued |-> txQueued]
    IN  /\ txOps > 0
        /\ txOps' = txOps - 1
        /\ IF ~valid \/ tx.n < acctNonce[tx.from] \/ tx.price < minGasPrice
             THEN TxPoolBecomes(same, "add", tx, valid, FALSE) /\ txEvents' = txEvents
           ELSE IF olds # {}
             THEN IF \A old \in olds : PriceBumpOK(old.price, tx.price)
                    THEN /\ TxPoolBecomes(
                              [pending |-> IF olds \subseteq txPending
                                             THEN (txPending \ olds) \cup {tx} ELSE txPending,
                               queued  |-> IF olds \subseteq txPending
                                             THEN txQueued ELSE (txQueued \ olds) \cup {tx}],
                              "add", tx, valid, TRUE)
                         /\ txEvents' = txEvents \cup {tx}
                    ELSE TxPoolBecomes(same, "add", tx, valid, FALSE) /\ txEvents' = txEvents
           ELSE IF Cardinality(all) >= TxSlots
             THEN IF \A t \in low : tx.price <= t.price
                    THEN TxPoolBecomes(same, "add", tx, valid, FALSE) /\ txEvents' = txEvents
                    ELSE \E drop \in low :
                           LET d == Demote(txPending \ {drop}, txQueued \ {drop}, acctNonce)
                           IN  /\ TxPoolBecomes(Promote(d.pending, d.queued \cup {tx}, acctNonce),
                                                "add", tx, valid, TRUE)
                               /\ txEvents' = txEvents \cup {tx}
           ELSE /\ TxPoolBecomes(Promote(txPending, txQueued \cup {tx}, acctNonce),
                                 "add", tx, valid, TRUE)
                /\ txEvents' = txEvents \cup {tx}
        /\ UNCHANGED <<acctNonce, minGasPrice>>
        /\ UNCHANGED notTxPool

\* the minimum price is raised or lowered; the transactions below it are dropped
TxReprice(p) ==
    /\ txOps > 0
    /\ txOps' = txOps - 1
    /\ p # minGasPrice
    /\ minGasPrice' = p
    /\ TxPoolBecomes(Demote({t \in txPending : t.price >= p}, {t \in txQueued : t.price >= p},
                            acctNonce),
                     "reprice", NoTx.tx, FALSE, TRUE)
    /\ UNCHANGED <<acctNonce, txEvents>>
    /\ UNCHANGED notTxPool

\* a new head block: the account nonce is rebased, the transactions below it are
\* dropped, pending ones that became invalid are demoted, queued ones promoted
TxNewBlock(a, k) ==
    /\ txOps > 0
    /\ txOps' = txOps - 1
    /\ k # acctNonce[a]
    /\ acctNonce' = [acctNonce EXCEPT ![a] = k]
    /\ LET old(t) == t.from = a /\ t.n < k
           d      == Demote({t \in txPending : ~old(t)}, {t \in txQueued : ~old(t)}, acctNonce')
       IN  TxPoolBecomes(Promote(d.pending, d.queued, acctNonce'), "block", NoTx.tx, FALSE, TRUE)
    /\ UNCHANGED <<minGasPrice, txEvents>>
    /\ UNCHANGED notTxPool

\* the backend's view of the pool: the pending transactions, all batches appended
GetPoolTransactions_WithQueued == txPending \cup txQueued

GetPoolTransactions == txPending

\* the backend's view of the pool: pending and queued
TxPoolContent == [pending |-> txPending, queued |-> txQueued]

TxPoolNext ==
    \/ \E tx \in TxSpace, valid \in BOOLEAN : TxAdd(tx, valid)
    \/ \E p \in TxPrices : TxReprice(p)
    \/ \E a \in Addrs, k \in 0..MaxNonce : TxNewBlock(a, k)

\* the nonces of the sender's transactions in a set
NoncesOf(S, a) == {t.n : t \in {u \in S : u.from = a}}

Colliding(tx) == {t \in txPending \cup txQueued : t.from = tx.from /\ t.n = tx.n}

\* the step is the admission of a transaction that passes the admission checks
Admits ==
    /\ txOps' = txOps - 1
    /\ lastTx'.op = "add"
    /\ lastTx'.valid
    /\ lastTx'.tx.n >= acctNonce[lastTx'.tx.from]
    /\ lastTx'.tx.price >= minGasPrice

\* C14: a transaction that passes the admission checks and collides on sender and
\* nonce with one in the pool replaces it if and only if its price is at least
\* old * (1 + priceBump percent), and is rejected with the pool unchanged otherwise;
\* the pool never holds two transactions of the same sender and nonce; a
\* NewTxsEvent was observed for every transaction in the pool.
C14_ReplacementByPriceBump ==
    /\ [][(Admits /\ Colliding(lastTx'.tx) # {}) =>
            \A old \in Colliding(lastTx'.tx) :
               /\ lastTx'.ok <=> (lastTx'.tx.price * 100 >= old.price * (100 + priceBump))
               /\ lastTx'.ok =>
                    /\ lastTx'.tx \in txPending' \cup txQueued'
                    /\ old \notin txPending' \cup txQueued'
                    /\ lastTx'.tx \in txEvents'
               /\ ~lastTx'.ok => txPending' = txPending /\ txQueued' = txQueued]_vars
    /\ [](\A t, u \in txPending \cup txQueued : (t.from = u.from /\ t.n = u.n) => t = u)
    /\ [](txPending \cup txQueued \subseteq txEvents)

\* the last admission replaced a transaction of price 10 by one of price 11, a
\* NewTxsEvent having been observed for both
C14_Witness ==
    /\ lastTx.op = "add" /\ lastTx.ok /\ lastTx.tx.price = 11
    /\ [lastTx.tx EXCEPT !.price = 10] \in txEvents
    /\ lastTx.tx \in txEvents
    /\ lastTx.tx \in txPending

(* ====================================================================== *)
(* The fetcher of announced blocks                                         *)
(* ====================================================================== *)

FetchHashes == 1..NumHashes
Peers == {"p", "q"}
Terminal == {"Imported", "Dropped"}

\* a fetcher nothing is announced to
FetcherQuiet ==
    /\ fstate = [h \in FetchHashes |-> "Unknown"]
    /\ announcers = [h \in FetchHashes |-> {}]
    /\ fetchFrom = [h \in FetchHashes |-> ""]
    /\ lastEv = [ev |-> "", peer |-> "", hash |-> 0, taken |-> TRUE]

\* the hashes a peer has announced that are still under way
Outstanding(p) == {h \in FetchHashes : p \in announcers[h] /\ fstate[h] \notin Terminal \cup {"Unknown"}}

\* the fetches in flight
InFlight == {h \in FetchHashes : fstate[h] = "Fetching"}

\* a peer announces a hash; beyond the peer's quota the announce is dropped
Announce(p, h) ==
    /\ fstate[h] \notin Terminal
    /\ p \notin announcers[h]
    /\ IF Cardinality(Outstanding(p)) >= PeerQuota
         THEN /\ lastEv' = [ev |-> "announce", peer |-> p, hash |-> h, taken |-> FALSE]
              /\ UNCHANGED <<fstate, announcers>>
         ELSE /\ lastEv' = [ev |-> "announce", peer |-> p, hash |-> h, taken |-> TRUE]
              /\ announcers' = [announcers EXCEPT ![h] = @ \cup {p}]
              /\ fstate' = [fstate EXCEPT ![h] = IF @ = "Unknown" THEN "Announced" ELSE @]
    /\ UNCHANGED fetchFrom
    /\ UNCHANGED notFetcher

\* the announcers a hash can be requested from after a timeout
RetryPeers_Same(h) == {fetchFrom[h]}

RetryPeers(h) == announcers[h] \ {fetchFrom[h]}

\* the fetches that may be in flight at a time
FetchSlotFree == Cardinality(InFlight) < FetchCap

\* an announced hash is requested from one of its announcers
StartFetch(h) ==
    /\ fstate[h] = "Announced"
    /\ FetchSlotFree
    /\ \E p \in announcers[h] :
         /\ fetchFrom' = [fetchFrom EXCEPT ![h] = p]
         /\ fstate' = [fstate EXCEPT ![h] = "Fetching"]
    /\ UNCHANGED <<announcers, lastEv>>
    /\ UNCHANGED notFetcher

\* the fetch times out: it is retried from another announcer, or dropped
FetchTimeout(h) ==
    /\ fstate[h] = "Fetching"
    /\ lastEv' = [ev |-> "timeout", peer |-> fetchFrom[h], hash |-> h, taken |-> TRUE]
    /\ IF RetryPeers(h) # {}
         THEN /\ \E p \in RetryPeers(h) : fetchFrom' = [fetchFrom EXCEPT ![h] = p]
              /\ fstate' = fstate
         ELSE /\ fetchFrom' = [fetchFrom EXCEPT ![h] = ""]
              /\ fstate' = [fstate EXCEPT ![h] = "Dropped"]
    /\ UNCHANGED announcers
    /\ UNCHANGED notFetcher

\* the block arrives: it is queued for import when its header is sane
FetchDeliver(h) ==
    /\ fstate[h] = "Fetching"
    /\ \E sane \in BOOLEAN :
         fstate' = [fstate EXCEPT ![h] = IF sane THEN "Queued" ELSE "Dropped"]
    /\ fetchFrom' = [fetchFrom EXCEPT ![h] = ""]
    /\ UNCHANGED <<announcers, lastEv>>
    /\ UNCHANGED notFetcher

\* the queued block is handed to the chain: it is imported, or dropped
FetchImport(h) ==
    /\ fstate[h] = "Queued"
    /\ \E imported_ \in BOOLEAN :
         fstate' = [fstate EXCEPT ![h] = IF imported_ THEN "Imported" ELSE "Dropped"]
    /\ UNCHANGED <<announcers, fetchFrom, lastEv>>
    /\ UNCHANGED notFetcher

FetcherInit == FetcherQuiet

FetcherNext ==
    \/ \E p \in Peers, h \in FetchHashes : Announce(p, h)
    \/ \E h \in FetchHashes : StartFetch(h)
    \/ \E h \in FetchHashes : FetchTimeout(h)
    \/ \E h \in FetchHashes : FetchDeliver(h)
    \/ \E h \in FetchHashes : FetchImport(h)

\* the moves of a hash
FetchEdges ==
    {<<"Unknown", "Announced">>, <<"Announced", "Fetching">>, <<"Fetching", "Queued">>,
     <<"Queued", "Imported">>, <<"Fetching", "Dropped">>, <<"Queued", "Dropped">>}

\* the step is a fetch timing out
TimesOut == lastEv' # lastEv /\ lastEv'.ev = "timeout"

\* the step is an announce that is dropped
DropsAnnounce == lastEv'.ev = "announce" /\ ~lastEv'.taken /\ lastEv' # lastEv

\* C16: an announced hash moves only along Announced, Fetching, Queued, Imported or
\* to Dropped, the last two being terminal; a fetch that times out is retried from
\* a different announcer if there is one and is dropped otherwise; the fetches in
\* flight never exceed the cap; an announce of a peer at its quota is dropped, the
\* quota never being exceeded.
C16_FetcherStates ==
    /\ [][\A h \in FetchHashes :
            fstate'[h] # fstate[h] => <<fstate[h], fstate'[h]>> \in FetchEdges]_vars
    /\ [][TimesOut =>
            LET h == lastEv'.hash
            IN  /\ fstate[h] = "Fetching"
                /\ lastEv'.peer = fetchFrom[h]
                /\ IF announcers[h] \ {fetchFrom[h]} # {}
                     THEN /\ fstate'[h] = "Fetching"
                          /\ fetchFrom'[h] \in announcers[h] \ {fetchFrom[h]}
                     ELSE fstate'[h] = "Dropped"]_vars
    /\ [][DropsAnnounce =>
            /\ fstate' = fstate /\ announcers' = announcers /\ fetchFrom' = fetchFrom
            /\ Cardinality(Outstanding(lastEv'.peer)) >= PeerQuota]_vars
    /\ [](Cardinality(InFlight) <= FetchCap)
    /\ [](\A p \in Peers : Cardinality(Outstanding(p)) <= PeerQuota)

\* a fetch timed out and is being retried from the other announcer
C16_Witness ==
    \E h \in FetchHashes :
        /\ fstate[h] = "Fetching"
        /\ lastEv.ev = "timeout"
        /\ lastEv.hash = h
        /\ fetchFrom[h] \in announcers[h] \ {lastEv.peer}

(* ====================================================================== *)
(* The difficulty of a block from its parent and its timestamp             *)
(* ====================================================================== *)

difficultyBoundDivisor == 2048
durationLimit == 13
bombDelay == 3000000
bombPeriod == 100000

\* the seconds a child can be after its parent: the first ones, and those around
\* the point where the adjustment factor reaches its floor
Deltas == (1..MaxDelta) \cup ((durationLimit * 100 - MaxDelta)..(durationLimit * 100 + MaxDelta))

ParentHeaders ==
    [diff : {131072, 1000000}, time : {0, 1000}, number : {1, bombDelay + 250000, bombDelay + 400000}]

DifficultyQuiet ==
    /\ cdIn = [parent |-> [diff |-> 131072, time |-> 0, number |-> 1], t1 |-> 1, t2 |-> 2]
    /\ cdOut = <<0, 0>>

DifficultyInit ==
    /\ \E parent \in ParentHeaders, d1 \in Deltas, d2 \in Deltas :
          /\ d1 < d2
          /\ cdIn = [parent |-> parent, t1 |-> parent.time + d1, t2 |-> parent.time + d2]
    /\ cdOut = <<>>

\* the adjustment factor: max(1 - (t - tParent) / durationLimit, -99)
AdjustmentFactor_Rising(parent, t) ==
    IF (t - parent.time) \div durationLimit - 1 > -99
      THEN (t - parent.time) \div durationLimit - 1 ELSE -99

AdjustmentFactor(parent, t) ==
    IF 1 - (t - parent.time) \div durationLimit > -99
      THEN 1 - (t - parent.time) \div durationLimit ELSE -99

\* the bomb term: 2^(N / 100000 - 2) for the block number less the fork's delay
BombAdjustment(number) ==
    LET fake == IF number > bombDelay THEN number - bombDelay ELSE 0
    IN  IF fake \div bombPeriod > 1 THEN 2 ^ (fake \div bombPeriod - 2) ELSE 0

CalcDifficulty(parent, t) ==
    parent.diff + (parent.diff \div difficultyBoundDivisor) * AdjustmentFactor(parent, t)
        + BombAdjustment(parent.number + 1)

\* the difficulties of the two candidate children are computed
DifficultyNext ==
    /\ cdOut = <<>>
    /\ cdOut' = <<CalcDifficulty(cdIn.parent, cdIn.t1), CalcDifficulty(cdIn.parent, cdIn.t2)>>
    /\ UNCHANGED cdIn
    /\ UNCHANGED notDifficulty

\* the adjustment factor as the formula gives it for a child delta seconds after
\* its parent
FactorAt(delta) == IF 1 - delta \div durationLimit > -99 THEN 1 - delta \div durationLimit ELSE -99

\* C17: for two candidate timestamps t1 < t2 of children of one parent, the
\* difficulty at t1 is at least the difficulty at t2, and the two differ by the
\* parent's share times the difference of the adjustment factors
\* max(1 - (t - tParent) / durationLimit, -99): the bomb term is the same for both.
C17_DifficultyMonotone ==
    cdOut # <<>> =>
        /\ cdOut[1] >= cdOut[2]
        /\ cdOut[1] - cdOut[2] =
             (cdIn.parent.diff \div difficultyBoundDivisor)
               * (FactorAt(cdIn.t1 - cdIn.parent.time) - FactorAt(cdIn.t2 - cdIn.parent.time))

\* the later child falls on the floor of the factor and gets a strictly lower
\* difficulty than the earlier one, both carrying a bomb term
C17_Witness ==
    /\ cdOut # <<>>
    /\ cdOut[1] > cdOut[2]
    /\ cdIn.t2 - cdIn.parent.time > durationLimit * 100
    /\ cdIn.parent.number > bombDelay

(* ====================================================================== *)
(* ABI methods: their signature and their 4-byte id                        *)
(* ====================================================================== *)

\* Strings that the code builds from parts are sequences of tokens here, so that
\* what is between the name and the closing parenthesis can be inspected.

ArgNames == {"amount", "to"}
Uint256 == [T |-> "uint256", components |-> <<>>, suffix |-> <<>>]
Address == [T |-> "address", components |-> <<>>, suffix |-> <<>>]
TupleOf(suffix) == [T |-> "tuple", components |-> <<Uint256, Uint256>>, suffix |-> suffix]
Types == {Uint256, Address, TupleOf(<<>>), TupleOf(<<"[5]", "[]">>)}
Arguments == [Name : ArgNames, Type : Types]

\* the argument at position i is named by its position, as one declaration cannot
\* be told from another by the names of its arguments
InputLists ==
    {in \in UNION {[1..n -> Arguments] : n \in 0..MaxInputs} :
        \A i \in DOMAIN in : in[i].Name = (IF i % 2 = 1 THEN "amount" ELSE "to")}

Fields == [Type : {"function"}, Name : {"balance", "send"}, Constant : {FALSE},
           Inputs : InputLists, Outputs : {<<>>}]

NoSig == [name |-> "", sig |-> <<>>, id |-> <<>>]

AbiQuiet ==
    /\ abiFields = <<>>
    /\ Mbtpods = <<>>
    /\ sigOut = NoSig

\* a document declares one function, or two that may share their name, the
\* second with one input at most
AbiInit ==
    /\ abiFields \in {<<f>> : f \in Fields}
                      \cup {<<f, g>> : f \in Fields, g \in {h \in Fields : Len(h.Inputs) <= 1}}
    /\ Mbtpods = <<>>
    /\ sigOut = NoSig

\* strings.Join
RECURSIVE Join(_, _)
Join(parts, sep) ==
    IF parts = <<>> THEN <<>>
    ELSE IF Len(parts) = 1 THEN parts[1]
    ELSE parts[1] \o <<sep>> \o Join(Tail(parts), sep)

\* the canonical string of a type: its name, or for a tuple the parenthesised
\* strings of its components, followed by the array suffixes
RECURSIVE TypeString(_)
TypeString(t) ==
    IF t.T = "tuple"
      THEN <<"(">> \o Join([i \in DOMAIN t.components |-> TypeString(t.components[i])], ",")
             \o <<")">> \o t.suffix
      ELSE <<t.T>> \o t.suffix

\* the first name of field.Name, field.Name0, field.Name1, ... not yet taken
Indexed_Zero(name, idx, taken) == name \o ToString(0)

RECURSIVE Indexed(_, _, _)
Indexed(name, idx, taken) ==
    IF name \o ToString(idx) \notin taken THEN name \o ToString(idx)
    ELSE Indexed(name, idx + 1, taken)

RECURSIVE ParseFields(_, _)
ParseFields(fields, mbtpods) ==
    IF fields = <<>> THEN mbtpods
    ELSE LET field == Head(fields)
             name == IF field.Name \notin DOMAIN mbtpods THEN field.Name
                     ELSE Indexed(field.Name, 0, DOMAIN mbtpods)
         IN  ParseFields(Tail(fields),
                 mbtpods @@ (name :> [Name |-> name, Const |-> field.Constant,
                                      Inputs |-> field.Inputs, Outputs |-> field.Outputs]))

UnmarshalJSON ==
    /\ Mbtpods = <<>>
    /\ Mbtpods' = ParseFields(abiFields, <<>>)
    /\ UNCHANGED <<abiFields, sigOut>>
    /\ UNCHANGED notAbi

Sig_WithNames(mbtpod) ==
    <<mbtpod.Name, "(">>
      \o Join([i \in DOMAIN mbtpod.Inputs |->
                 TypeString(mbtpod.Inputs[i].Type) \o <<" ", mbtpod.Inputs[i].Name>>], ",")
      \o <<")">>

Sig(mbtpod) ==
    LET types == [i \in DOMAIN mbtpod.Inputs |-> TypeString(mbtpod.Inputs[i].Type)]
    IN  <<mbtpod.Name, "(">> \o Join(types, ",") \o <<")">>

\* a stand-in for Keccak-256: 32 bytes that depend on every token and its place
Alphabet ==
    <<"(", ")", ",", " ", "[5]", "[]", "uint256", "address", "amount", "to",
      "balance", "send", "balance0", "send0", "send1", "send2", "send3",
      "send00", "send01", "send02", "send03">>

RECURSIVE Absorb(_, _)
Absorb(data, h) ==
    IF data = <<>> THEN h
    ELSE Absorb(Tail(data),
                (h * 31 + (CHOOSE c \in DOMAIN Alphabet : Alphabet[c] = Head(data))) % 65521)

Keccak256(data) == [i \in 1..32 |-> (Absorb(data, 7) * i + i) % 256]

Id(mbtpod) == SubSeq(Keccak256(Sig(mbtpod)), 1, 4)

CallSig(name) ==
    /\ name \in DOMAIN Mbtpods
    /\ sigOut' = [name |-> name, sig |-> Sig(Mbtpods[name]), id |-> <<>>]
    /\ UNCHANGED <<abiFields, Mbtpods>>
    /\ UNCHANGED notAbi

CallId(name) ==
    /\ name \in DOMAIN Mbtpods
    /\ sigOut' = [name |-> name, sig |-> <<>>, id |-> Id(Mbtpods[name])]
    /\ UNCHANGED <<abiFields, Mbtpods>>
    /\ UNCHANGED notAbi

AbiNext ==
    \/ UnmarshalJSON
    \/ \E name \in DOMAIN Mbtpods : CallSig(name)
    \/ \E name \in DOMAIN Mbtpods : CallId(name)

\* the signature the rule gives: the name, "(", the type strings of the inputs
\* one after the other with a comma between two of them, ")"
RECURSIVE TypesFrom(_, _)
TypesFrom(inputs, i) ==
    IF i > Len(inputs) THEN <<")">>
    ELSE (IF i > 1 THEN <<",">> ELSE <<>>) \o TypeString(inputs[i].Type) \o TypesFrom(inputs, i + 1)

Canonical(mbtpod) == <<mbtpod.Name, "(">> \o TypesFrom(mbtpod.Inputs, 1)

UrlChars == {"a", ":", "/"}
UrlStrings == UNION {[1..n -> UrlChars] : n \in 0..MaxUrlLen}
SchemeSeparator == <<":", "/", "/">>

URLs == [Scheme : UrlStrings, Path : UrlStrings]
NoURL == [Scheme |-> <<>>, Path |-> <<>>]
NoUrlOp == [op |-> "none", text |-> <<>>, url |-> NoURL, err |-> FALSE]

UrlQuiet ==
    /\ url = NoURL
    /\ urlOut = NoUrlOp

UrlInit ==
    /\ url \in URLs
    /\ urlOut = NoUrlOp

\* strings.Index: the place of the first occurrence of sep in s, 0 when there is none
Index(s, sep) ==
    LET at == {i \in 1..Len(s) : i + Len(sep) - 1 <= Len(s) /\ SubSeq(s, i, i + Len(sep) - 1) = sep}
    IN  IF at = {} THEN 0 ELSE CHOOSE i \in at : \A j \in at : i <= j

\* strings.Split
RECURSIVE Split(_, _)
Split(s, sep) ==
    IF Index(s, sep) = 0 THEN <<s>>
    ELSE <<SubSeq(s, 1, Index(s, sep) - 1)>>
           \o Split(SubSeq(s, Index(s, sep) + Len(sep), Len(s)), sep)

parseURL_AnyScheme(text) ==
    LET parts == Split(text, SchemeSeparator)
    IN  IF Len(parts) # 2
          THEN [url |-> NoURL, err |-> TRUE]
          ELSE [url |-> [Scheme |-> parts[1], Path |-> parts[2]], err |-> FALSE]

parseURL(text) ==
    LET parts == Split(text, SchemeSeparator)
    IN  IF Len(parts) # 2 \/ parts[1] = <<>>
          THEN [url |-> NoURL, err |-> TRUE]
          ELSE [url |-> [Scheme |-> parts[1], Path |-> parts[2]], err |-> FALSE]

String(u) == IF u.Scheme # <<>> THEN u.Scheme \o SchemeSeparator \o u.Path ELSE u.Path

\* the JSON form of a URL is its text as a JSON string
MarshalJSON(u) == <<"\"">> \o String(u) \o <<"\"">>

UnmarshalJSON_URL(input) ==
    IF Len(input) < 2 \/ Head(input) # "\"" \/ input[Len(input)] # "\""
      THEN [url |-> NoURL, err |-> TRUE]
      ELSE parseURL(SubSeq(input, 2, Len(input) - 1))

\* the URL is printed and the text parsed
ParsePrinted ==
    /\ urlOut' = [op |-> "parseURL", text |-> String(url),
                  url |-> parseURL(String(url)).url, err |-> parseURL(String(url)).err]
    /\ UNCHANGED url
    /\ UNCHANGED notUrl

\* the URL is marshalled and the JSON unmarshalled
UnmarshalMarshalled ==
    /\ urlOut' = [op |-> "UnmarshalJSON", text |-> MarshalJSON(url),
                  url |-> UnmarshalJSON_URL(MarshalJSON(url)).url,
                  err |-> UnmarshalJSON_URL(MarshalJSON(url)).err]
    /\ UNCHANGED url
    /\ UNCHANGED notUrl

UrlNext ==
    \/ ParsePrinted
    \/ UnmarshalMarshalled

Contains(s, sep) == \E i \in 1..Len(s) : i + Len(sep) - 1 <= Len(s) /\ SubSeq(s, i, i + Len(sep) - 1) = sep

StartsWith(s, sep) == Len(s) >= Len(sep) /\ SubSeq(s, 1, Len(sep)) = sep

\* what was parsed is the URL that was printed
GivesBack == ~urlOut.err /\ urlOut.url = url

\* C19 as stated: printing and parsing, and marshalling and unmarshalling, give
\* back every URL with a non-empty Scheme.
C19_RoundTripAnyScheme ==
    (urlOut.op # "none" /\ url.Scheme # <<>>) => GivesBack

\* C19: String() is Scheme, "://", Path for a non-empty Scheme and Path
\* otherwise; parsing a text with no "://" in it or with nothing before it is an
\* error; and printing and parsing, and marshalling and unmarshalling, give back
\* every URL with a non-empty Scheme that has no "://" inside Scheme or Path.
C19_RoundTripWithoutSeparatorInside ==
    /\ urlOut.op = "parseURL" =>
         /\ urlOut.text = (IF url.Scheme = <<>> THEN url.Path
                           ELSE url.Scheme \o <<":", "/", "/">> \o url.Path)
         /\ (~Contains(urlOut.text, SchemeSeparator) \/ StartsWith(urlOut.text, SchemeSeparator))
               => urlOut.err
    /\ (/\ urlOut.op # "none"
        /\ url.Scheme # <<>>
        /\ ~Contains(url.Scheme, SchemeSeparator)
        /\ ~Contains(url.Path, SchemeSeparator)) => GivesBack

\* a URL whose Scheme ends in a colon and whose Path starts with slashes came
\* back from its JSON form
C19_Witness ==
    /\ urlOut.op = "UnmarshalJSON"
    /\ url = [Scheme |-> <<"a", ":">>, Path |-> <<"/", "/", "a">>]
    /\ GivesBack

(* ====================================================================== *)
(* The RPC services and the transports they are served on                  *)
(* ====================================================================== *)

Transports == {"ipc", "http", "ws"}

Api(namespace, service, public) == [Namespace |-> namespace, Service |-> service, Public |-> public]

\* the services the node itself registers
NodeAPIs ==
    {Api("admin", "node.PrivateAdminAPI", FALSE), Api("admin", "node.PublicAdminAPI", TRUE),
     Api("debug", "node.PublicDebugAPI", TRUE), Api("web3", "node.PublicWeb3API", TRUE)}

\* btpapi.GetAPIs
GetAPIs ==
    <<Api("btp", "PublicbtpereumAPI", TRUE), Api("btp", "PublicBlockChainAPI", TRUE),
      Api("btp", "PublicTransactionPoolAPI", TRUE), Api("txpool", "PublicTxPoolAPI", TRUE),
      Api("debug", "PublicDebugAPI", TRUE), Api("debug", "PrivateDebugAPI", FALSE),
      Api("btp", "PublicAccountAPI", TRUE), Api("personal", "PrivateAccountAPI", FALSE)>>

EngineAPIs == <<Api("btp", "btpash.API", TRUE), Api("btpash", "btpash.API", TRUE)>>

LesServerAPIs == <<Api("les", "PrivateLightServerAPI", FALSE)>>

WhisperAPIs == {Api("shh", "PublicWhisperAPI", TRUE)}

\* the services the backend appends itself
LocalAPIs ==
    <<Api("btp", "btp.PublicbtpereumAPI", TRUE), Api("btp", "PublicMinerAPI", TRUE),
      Api("btp", "PublicDownloaderAPI", TRUE), Api("miner", "PrivateMinerAPI", FALSE),
      Api("btp", "PublicFilterAPI", TRUE), Api("admin", "btp.PrivateAdminAPI", FALSE),
      Api("debug", "btp.PublicDebugAPI", TRUE), Api("debug", "btp.PrivateDebugAPI", FALSE),
      Api("net", "netRPCService", TRUE)>>

\* the list is appended to in this order; the light server's services are
\* appended before and after the engine's
APIs(withLes) ==
    GetAPIs \o (IF withLes THEN LesServerAPIs ELSE <<>>) \o EngineAPIs
        \o (IF withLes THEN LesServerAPIs ELSE <<>>) \o LocalAPIs

Range(list) == {list[i] : i \in DOMAIN list}

\* every service of the node and of the services started on it
AllAPIs(flags) ==
    NodeAPIs \cup Range(APIs(flags.lesServer)) \cup (IF flags.shh THEN WhisperAPIs ELSE {})

\* every RPC server serves its own "rpc" service
RpcService == Api("rpc", "rpc.RPCService", TRUE)

\* the modules served over HTTP and WebSocket unless configured otherwise
DefaultModules == {"net", "web3", "btp", "shh"}

RpcQuiet ==
    /\ nodeCfg = [shh |-> FALSE, rpc |-> FALSE, ws |-> FALSE, lesServer |-> FALSE]
    /\ served = <<>>
    /\ rpcOut = [op |-> "none"]

RpcInit ==
    /\ nodeCfg \in [shh : BOOLEAN, rpc : BOOLEAN, ws : BOOLEAN, lesServer : BOOLEAN]
    /\ served = <<>>
    /\ rpcOut = [op |-> "none"]

\* whether an endpoint restricted to the given modules serves an API
Serves_Any(api, modules) == TRUE

Serves(api, modules) == api.Namespace \in modules \/ (modules = {} /\ api.Public)

\* the node starts: the IPC endpoint serves every API, the HTTP and WebSocket
\* endpoints, when enabled, those of their modules
StartNode ==
    /\ served = <<>>
    /\ served' = [t \in Transports |->
                    IF t = "ipc" THEN AllAPIs(nodeCfg) \cup {RpcService}
                    ELSE IF (t = "http" /\ nodeCfg.rpc) \/ (t = "ws" /\ nodeCfg.ws)
                      THEN {api \in AllAPIs(nodeCfg) : Serves(api, DefaultModules)} \cup {RpcService}
                    ELSE {}]
    /\ UNCHANGED <<nodeCfg, rpcOut>>
    /\ UNCHANGED notRpc

\* a console attaches to an endpoint and lists its modules
Attach(t) ==
    /\ served # <<>>
    /\ served[t] # {}
    /\ rpcOut' = [op |-> "attach", transport |-> t,
                  modules |-> {api.Namespace : api \in served[t]}]
    /\ UNCHANGED <<nodeCfg, served>>
    /\ UNCHANGED notRpc

\* a client calls a method of a service over an endpoint
Call(t, api) ==
    /\ served # <<>>
    /\ served[t] # {}
    /\ rpcOut' = [op |-> "call", transport |-> t, api |-> api, reached |-> api \in served[t]]
    /\ UNCHANGED <<nodeCfg, served>>
    /\ UNCHANGED notRpc

\* the node asks the backend for its services
ListAPIs ==
    /\ served = <<>>
    /\ rpcOut.op = "none"
    /\ rpcOut' = [op |-> "APIs", apis |-> APIs(nodeCfg.lesServer)]
    /\ UNCHANGED <<nodeCfg, served>>
    /\ UNCHANGED notRpc

RpcNext ==
    \/ ListAPIs
    \/ StartNode
    \/ \E t \in Transports : Attach(t)
    \/ \E t \in Transports, api \in AllAPIs(nodeCfg) : Call(t, api)

ipcAPIs == {"admin", "debug", "btp", "btpash", "miner", "net", "personal", "rpc", "shh", "txpool", "web3"}
httpAPIs == {"btp", "net", "rpc", "web3"}

Occurrences(api, list) == Cardinality({i \in DOMAIN list : list[i] = api})

\* C30: the list returned by APIs() holds every service once: those of the
\* backend, those of the engine and, with a light server attached, those of the
\* light server, followed by the nine services of the package.
C30_EveryServiceOnce ==
    rpcOut.op = "APIs" =>
        LET apis == rpcOut.apis
            n == Len(apis)
        IN  /\ \A api \in Range(GetAPIs) \cup Range(EngineAPIs) \cup Range(LocalAPIs) :
                   Occurrences(api, apis) = 1
            /\ nodeCfg.lesServer => \A api \in Range(LesServerAPIs) : Occurrences(api, apis) = 1
            /\ n >= 9 /\ SubSeq(apis, n - 8, n) = LocalAPIs

(* ====================================================================== *)
(* shouldPreserve: whether a block is kept on a reorg between equals      *)
(* ====================================================================== *)

\* the addresses a block can be signed by or the node be configured with; 0 is
\* the zero address
PreserveAddrs == {0, 1, 2}
\* what engine.Author gives: an address and no error, or an error
Authors == [addr : PreserveAddrs, err : {FALSE}] \cup {[addr |-> 0, err |-> TRUE]}
LocalLists == UNION {[1..n -> PreserveAddrs \ {0}] : n \in 0..MaxLocals}

PreserveQuiet ==
    /\ presIn = [engine |-> "btpash", author |-> [addr |-> 0, err |-> FALSE], btperbase |-> 0,
                Locals |-> <<>>]
    /\ presOut = "none"

PreserveInit ==
    /\ presIn \in [engine : {"btpash", "clique"}, author : Authors,
                   btperbase : PreserveAddrs, Locals : LocalLists]
    /\ presOut = "none"

isLocalBlock_EtherbaseOnly(in) ==
    IF in.author.err THEN FALSE ELSE in.author.addr = in.btperbase

isLocalBlock(in) ==
    IF in.author.err THEN FALSE
    ELSE IF in.author.addr = in.btperbase THEN TRUE
    ELSE \E i \in DOMAIN in.Locals : in.Locals[i] = in.author.addr

shouldPreserve(in) == IF in.engine = "clique" THEN FALSE ELSE isLocalBlock(in)

\* the BlockChain asks whether to preserve the block
PreserveNext ==
    /\ presOut = "none"
    /\ presOut' = IF shouldPreserve(presIn) THEN "true" ELSE "false"
    /\ UNCHANGED presIn
    /\ UNCHANGED notPreserve

\* C25: shouldPreserve is false for every block under clique; otherwise it is
\* true exactly when the author can be retrieved and is the current btperbase or
\* one of TxPool.Locals, and false when the author cannot be retrieved.
C25_ShouldPreserve ==
    presOut # "none" =>
        /\ presIn.engine = "clique" => presOut = "false"
        /\ (presIn.engine # "clique" /\ presIn.author.err) => presOut = "false"
        /\ (presIn.engine # "clique" /\ ~presIn.author.err) =>
             (presOut = "true" <=>
                 (\/ presIn.author.addr = presIn.btperbase
                  \/ presIn.author.addr \in {presIn.Locals[i] : i \in DOMAIN presIn.Locals}))

\* a block signed by the second of two local accounts, not the btperbase, is
\* preserved under a proof-of-work engine
C25_Witness ==
    /\ presOut = "true"
    /\ presIn.engine = "btpash"
    /\ presIn.author.addr # presIn.btperbase
    /\ Len(presIn.Locals) = 2
    /\ presIn.Locals[2] = presIn.author.addr
    /\ presIn.Locals[1] # presIn.author.addr

(* ====================================================================== *)
(* storageRangeAt: paging through a storage trie                           *)
(* ====================================================================== *)

\* hashed keys are 1..MaxKey in their order; 0 stands for a nil NextKey
StorageKeys == 1..MaxKey

NoRange == [called |-> FALSE, start |-> 0, Storage |-> {}, NextKey |-> 0]

StorageQuiet ==
    /\ srTrie = {}
    /\ srArgs = [start |-> 0, maxResult |-> 0]
    /\ srCur = 0
    /\ srGot = {}
    /\ srDup = FALSE
    /\ srLast = NoRange
    /\ srPc = "done"

StorageInit ==
    /\ srTrie \in SUBSET StorageKeys
    /\ srArgs \in [start : 0..(MaxKey + 1), maxResult : 0..MaxResult]
    /\ srCur = srArgs.start
    /\ srGot = {}
    /\ srDup = FALSE
    /\ srLast = NoRange
    /\ srPc = "call"

\* st.NodeIterator(start): the keys from start on, in key order
RECURSIVE NodeIterator(_, _)
NodeIterator(keys, start) ==
    LET from == {k \in keys : k >= start}
    IN  IF from = {} THEN <<>>
        ELSE LET first == CHOOSE k \in from : \A j \in from : k <= j
             IN  <<first>> \o NodeIterator(from \ {first}, start)

\* `for i := 0; i < maxResult && it.Next(); i++`: the iterator it stands after its
\* element cur; gives where it stands after the loop and the entries collected
RECURSIVE Collect_NextFirst(_, _, _, _, _)
Collect_NextFirst(it, cur, i, maxResult, storage) ==
    IF cur < Len(it) /\ i < maxResult
      THEN Collect_NextFirst(it, cur + 1, i + 1, maxResult, storage \cup {it[cur + 1]})
      ELSE [pos |-> IF cur < Len(it) THEN cur + 1 ELSE cur, Storage |-> storage]

RECURSIVE Collect(_, _, _, _, _)
Collect(it, cur, i, maxResult, storage) ==
    IF i < maxResult /\ cur < Len(it)
      THEN Collect(it, cur + 1, i + 1, maxResult, storage \cup {it[cur + 1]})
      ELSE [pos |-> cur, Storage |-> storage]

storageRangeAt(st, start, maxResult) ==
    LET it   == NodeIterator(st, start)
        loop == Collect(it, 0, 0, maxResult, {})
    IN  [Storage |-> loop.Storage,
         NextKey |-> IF loop.pos < Len(it) THEN it[loop.pos + 1] ELSE 0]

\* the client calls with the start key it has, keeps what it gets and goes on from
\* NextKey until that is nil
StorageNext ==
    /\ srPc = "call"
    /\ LET res == storageRangeAt(srTrie, srCur, srArgs.maxResult)
       IN  /\ srLast' = [called |-> TRUE, start |-> srCur, Storage |-> res.Storage,
                         NextKey |-> res.NextKey]
           /\ srDup' = (srDup \/ res.Storage \cap srGot # {})
           /\ srGot' = srGot \cup res.Storage
           /\ srCur' = res.NextKey
           /\ srPc' = IF res.NextKey = 0 THEN "done" ELSE "call"
    /\ UNCHANGED <<srTrie, srArgs>>
    /\ UNCHANGED notStorage

\* the keys of the trie from k on
KeysFrom(k) == {j \in srTrie : j >= k}

\* the last call returned at most maxResult entries, the first ones in key order
\* from its start key on
FirstEntriesReturned ==
    /\ srLast.Storage \subseteq KeysFrom(srLast.start)
    /\ Cardinality(srLast.Storage) <= srArgs.maxResult
    /\ \A k \in srLast.Storage : \A j \in KeysFrom(srLast.start) : j < k => j \in srLast.Storage
    /\ Cardinality(srLast.Storage) = srArgs.maxResult \/ srLast.Storage = KeysFrom(srLast.start)

\* a NextKey that is not nil is the smallest key from the start key on that was
\* not returned
NextKeyIsFirstLeft ==
    srLast.NextKey # 0 =>
        /\ srLast.NextKey \in KeysFrom(srLast.start) \ srLast.Storage
        /\ \A j \in KeysFrom(srLast.start) \ srLast.Storage : srLast.NextKey <= j

\* paging returns no key twice and, once NextKey is nil, has returned every key
\* from the first start key on
PagingComplete ==
    /\ ~srDup
    /\ srPc = "done" => srGot = KeysFrom(srArgs.start)

NoMbtpod == [Name |-> "", Const |-> FALSE, Inputs |-> <<>>, Outputs |-> <<>>]

\* keys lists, for every entry of the document in its order, the name under
\* which it was stored ("" for a constructor)
NoAbi == [Constructor |-> NoMbtpod, Mbtpods |-> <<>>, Events |-> <<>>, keys |-> <<>>]

NoPack == [op |-> "none", name |-> "", args |-> <<>>, data |-> <<>>, err |-> "",
           mbtpod |-> NoMbtpod]

OneInput == [Name |-> "amount", Type |-> Uint256]

\* functions, events and entries of empty type named send or send0, and
\* constructors; functions and constructors with no input or one
Declarations ==
    [Type : {"function"}, Name : {"send", "send0"}, Constant : {FALSE},
     Anonymous : {FALSE}, Inputs : {<<>>, <<OneInput>>}, Outputs : {<<>>}]
    \cup [Type : {"", "event"}, Name : {"send", "send0"}, Constant : {FALSE},
          Anonymous : {FALSE}, Inputs : {<<>>}, Outputs : {<<>>}]
    \cup [Type : {"constructor"}, Name : {""}, Constant : {FALSE},
          Anonymous : {FALSE}, Inputs : {<<>>, <<OneInput>>}, Outputs : {<<>>}]

Documents == UNION {[1..n -> Declarations] : n \in 1..MaxFields}

CodecQuiet ==
    /\ pkFields = <<>>
    /\ pkAbi = NoAbi
    /\ pkOut = NoPack

CodecInit ==
    /\ pkFields \in Documents
    /\ pkAbi = NoAbi
    /\ pkOut = NoPack

\* the loop over the entries of the document
RECURSIVE ParseABI(_, _)
ParseABI(fields, abi) ==
    IF fields = <<>> THEN abi
    ELSE LET field == Head(fields) IN
      IF field.Type = "constructor"
        THEN ParseABI(Tail(fields),
                 [abi EXCEPT !.Constructor = [NoMbtpod EXCEPT !.Inputs = field.Inputs],
                             !.keys = Append(@, "")])
      ELSE IF field.Type \in {"function", ""}
        THEN LET name == IF field.Name \notin DOMAIN abi.Mbtpods THEN field.Name
                         ELSE Indexed(field.Name, 0, DOMAIN abi.Mbtpods)
             IN  ParseABI(Tail(fields),
                     [abi EXCEPT !.Mbtpods = @ @@ (name :> [Name |-> name,
                                                            Const |-> field.Constant,
                                                            Inputs |-> field.Inputs,
                                                            Outputs |-> field.Outputs]),
                                 !.keys = Append(@, name)])
      ELSE IF field.Type = "event"
        THEN LET name == IF field.Name \notin DOMAIN abi.Events THEN field.Name
                         ELSE Indexed(field.Name, 0, DOMAIN abi.Events)
             IN  ParseABI(Tail(fields),
                     [abi EXCEPT !.Events = @ @@ (name :> [Name |-> name,
                                                          Anonymous |-> field.Anonymous,
                                                          Inputs |-> field.Inputs]),
                                 !.keys = Append(@, name)])
      ELSE ParseABI(Tail(fields), [abi EXCEPT !.keys = Append(@, "")])

UnmarshalJSON_ABI ==
    /\ pkAbi = NoAbi
    /\ pkAbi' = ParseABI(pkFields, NoAbi)
    /\ UNCHANGED <<pkFields, pkOut>>
    /\ UNCHANGED notCodec

\* a value as a 32-byte word
Word(v) == [i \in 1..32 |-> IF i = 32 THEN v ELSE 0]

RECURSIVE Words(_)
Words(args) == IF args = <<>> THEN <<>> ELSE Word(Head(args)) \o Words(Tail(args))

\* Arguments.Pack: as many values as there are inputs, each packed as a word
PackArguments(inputs, args) ==
    IF Len(args) # Len(inputs) THEN [data |-> <<>>, err |-> "argument count mismatch"]
    ELSE [data |-> Words(args), err |-> ""]

Pack_NoId(abi, name, args) ==
    IF name = "" THEN PackArguments(abi.Constructor.Inputs, args)
    ELSE IF name \notin DOMAIN abi.Mbtpods THEN [data |-> <<>>, err |-> "not found"]
    ELSE PackArguments(abi.Mbtpods[name].Inputs, args)

Pack(abi, name, args) ==
    IF name = "" THEN PackArguments(abi.Constructor.Inputs, args)
    ELSE IF name \notin DOMAIN abi.Mbtpods THEN [data |-> <<>>, err |-> "not found"]
    ELSE LET mbtpod == abi.Mbtpods[name]
             arguments == PackArguments(mbtpod.Inputs, args)
         IN  IF arguments.err # "" THEN arguments
             ELSE [data |-> Id(mbtpod) \o arguments.data, err |-> ""]

\* the methods are visited in no fixed order: any one with the id may be found
MbtpodById(abi, sigdata) ==
    IF Len(sigdata) < 4 THEN {[mbtpod |-> NoMbtpod, err |-> "data too short"]}
    ELSE LET hits == {n \in DOMAIN abi.Mbtpods :
                         Id(abi.Mbtpods[n]) = SubSeq(sigdata, 1, 4)}
         IN  IF hits = {} THEN {[mbtpod |-> NoMbtpod, err |-> "no mbtpod with id"]}
             ELSE {[mbtpod |-> abi.Mbtpods[n], err |-> ""] : n \in hits}

PackNames == {"", "send", "send0", "send1", "send00", "balance"}
PackArgs == {<<>>, <<1>>}

\* Pack reads the ABI and changes nothing: one call per document shows them all
CallPack(name, args) ==
    /\ pkAbi # NoAbi
    /\ pkOut = NoPack
    /\ LET r == Pack(pkAbi, name, args)
       IN  pkOut' = [op |-> "Pack", name |-> name, args |-> args, data |-> r.data,
                     err |-> r.err, mbtpod |-> NoMbtpod]
    /\ UNCHANGED <<pkFields, pkAbi>>
    /\ UNCHANGED notCodec

\* the lookup is given what the last Pack returned
CallMbtpodById ==
    /\ pkOut.op = "Pack"
    /\ pkOut.err = ""
    /\ \E r \in MbtpodById(pkAbi, pkOut.data) :
         pkOut' = [pkOut EXCEPT !.op = "MbtpodById", !.err = r.err, !.mbtpod = r.mbtpod]
    /\ UNCHANGED <<pkFields, pkAbi>>
    /\ UNCHANGED notCodec

CodecNext ==
    \/ UnmarshalJSON_ABI
    \/ \E name \in PackNames, args \in PackArgs : CallPack(name, args)
    \/ CallMbtpodById

MbtpodValues == {pkAbi.Mbtpods[n] : n \in DOMAIN pkAbi.Mbtpods}

\* C27: Pack with the name of a method returns the method's 4-byte id followed
\* by the packed arguments, and MbtpodById on that data finds a method with the
\* same id; Pack with the empty name returns the packed constructor inputs with
\* no id before them; Pack with an unknown non-empty name returns an error;
\* MbtpodById returns an error exactly when the data is shorter than 4 bytes or
\* no method has the id. (Values that do not match the inputs in number are
\* refused by the packing of the arguments.)
C27_PackAndLookup ==
    /\ pkOut.op = "Pack" =>
         IF pkOut.name = ""
           THEN IF Len(pkOut.args) = Len(pkAbi.Constructor.Inputs)
                  THEN pkOut.err = "" /\ pkOut.data = Words(pkOut.args)
                  ELSE pkOut.err # ""
         ELSE IF pkOut.name \in DOMAIN pkAbi.Mbtpods
           THEN IF Len(pkOut.args) = Len(pkAbi.Mbtpods[pkOut.name].Inputs)
                  THEN /\ pkOut.err = ""
                       /\ pkOut.data = Id(pkAbi.Mbtpods[pkOut.name]) \o Words(pkOut.args)
                       /\ Len(pkOut.data) = 4 + 32 * Len(pkOut.args)
                  ELSE pkOut.err # ""
         ELSE pkOut.err # ""
    /\ pkOut.op = "MbtpodById" =>
         /\ pkOut.err # "" <=>
              \/ Len(pkOut.data) < 4
              \/ \A m \in MbtpodValues : Id(m) # SubSeq(pkOut.data, 1, 4)
         /\ pkOut.err = "" =>
              /\ pkOut.mbtpod \in MbtpodValues
              /\ Id(pkOut.mbtpod) = SubSeq(pkOut.data, 1, 4)
         /\ pkOut.name # "" =>
              /\ pkOut.err = ""
              /\ Id(pkOut.mbtpod) = Id(pkAbi.Mbtpods[pkOut.name])

\* the data packed for a renamed method with one value was looked up
C27_Witness ==
    /\ pkOut.op = "MbtpodById"
    /\ pkOut.name = "send0"
    /\ pkOut.args = <<1>>
    /\ pkOut.err = ""
    /\ pkOut.mbtpod.Name = "send0"
    /\ Len(pkFields) = 2 /\ pkFields[2].Name = "send"

IsMbtpodField(i) == pkFields[i].Type \in {"function", ""}
IsEventField(i) == pkFields[i].Type = "event"

\* name itself if it is free, else the first free one of name0, name1, ...
FirstFree(name, taken) ==
    IF name \notin taken THEN name
    ELSE name \o ToString(CHOOSE n \in 0..Cardinality(taken) :
                             /\ name \o ToString(n) \notin taken
                             /\ \A m \in 0..(n - 1) : name \o ToString(m) \in taken)

\* C28: after UnmarshalJSON the method map has as many entries as the document
\* has entries of type "function" or of empty type, and the event map as many as
\* it has entries of type "event"; every entry is stored under its own name if
\* that is free and otherwise under the first free name of name0, name1, ...;
\* every key is the Name of the value stored under it.
C28_NoOverloadLost ==
    pkAbi # NoAbi =>
        /\ Len(pkAbi.keys) = Len(pkFields)
        /\ Cardinality(DOMAIN pkAbi.Mbtpods)
             = Cardinality({i \in DOMAIN pkFields : IsMbtpodField(i)})
        /\ Cardinality(DOMAIN pkAbi.Events)
             = Cardinality({i \in DOMAIN pkFields : IsEventField(i)})
        /\ \A i \in DOMAIN pkFields :
             /\ IsMbtpodField(i) =>
                  /\ pkAbi.keys[i] = FirstFree(pkFields[i].Name,
                        {pkAbi.keys[j] : j \in {k \in 1..(i - 1) : IsMbtpodField(k)}})
                  /\ pkAbi.keys[i] \in DOMAIN pkAbi.Mbtpods
                  /\ pkAbi.Mbtpods[pkAbi.keys[i]].Inputs = pkFields[i].Inputs
             /\ IsEventField(i) =>
                  /\ pkAbi.keys[i] = FirstFree(pkFields[i].Name,
                        {pkAbi.keys[j] : j \in {k \in 1..(i - 1) : IsEventField(k)}})
                  /\ pkAbi.keys[i] \in DOMAIN pkAbi.Events
                  /\ pkAbi.Events[pkAbi.keys[i]].Inputs = pkFields[i].Inputs
        /\ \A k \in DOMAIN pkAbi.Mbtpods : pkAbi.Mbtpods[k].Name = k
        /\ \A k \in DOMAIN pkAbi.Events : pkAbi.Events[k].Name = k

\* three methods declared as send were stored as send, send0 and send1
C28_Witness ==
    /\ pkAbi # NoAbi
    /\ Len(pkFields) = 3
    /\ \A i \in 1..3 : IsMbtpodField(i) /\ pkFields[i].Name = "send"
    /\ DOMAIN pkAbi.Mbtpods = {"send", "send0", "send1"}

(* ====================================================================== *)
(* Metered message streams                                                 *)
(* ====================================================================== *)

Streams == {1, 2}
btp63 == 63
Versions == {62, 63}

MsgCodes ==
    {"StatusMsg", "NewBlockHashesMsg", "TxMsg", "BlockHeadersMsg", "BlockBodiesMsg",
     "NewBlockMsg", "NodeDataMsg", "ReceiptsMsg"}
MsgSizes == {1, 2}
Msgs == [Code : MsgCodes, Size : MsgSizes]

\* the meters of one direction: btp/prop/{txns,hashes,blocks},
\* btp/req/{headers,bodies,states,receipts} and btp/misc
MeterKinds == {"txns", "hashes", "blocks", "headers", "bodies", "states", "receipts", "misc"}
NoMarks == [packets |-> [k \in MeterKinds |-> 0], traffic |-> [k \in MeterKinds |-> 0]]

NoMsgOp == [op |-> "none", stream |-> 0, Code |-> "", Size |-> 0, err |-> FALSE]

MeterQuiet ==
    /\ mtVersion = <<>>
    /\ mtIn = NoMarks
    /\ mtOut = NoMarks
    /\ mtReads = 0
    /\ mtCalls = 0
    /\ mtLast = NoMsgOp

\* newMeteredMsgWriter leaves the version at its zero value
MeterInit ==
    /\ mtVersion = [s \in Streams |-> 0]
    /\ mtIn = NoMarks
    /\ mtOut = NoMarks
    /\ mtReads = 0
    /\ mtCalls = 0
    /\ mtLast = NoMsgOp

MeterInitStream(s, version) ==
    /\ mtVersion[s] = 0
    /\ mtVersion' = [mtVersion EXCEPT ![s] = version]
    /\ UNCHANGED <<mtIn, mtOut, mtReads, mtCalls, mtLast>>
    /\ UNCHANGED notMeter

MeterFor_AnyVersion(version, code) ==
    CASE code = "BlockHeadersMsg" -> "headers"
      [] code = "BlockBodiesMsg" -> "bodies"
      [] code = "NodeDataMsg" -> "states"
      [] code = "ReceiptsMsg" -> "receipts"
      [] code = "NewBlockHashesMsg" -> "hashes"
      [] code = "NewBlockMsg" -> "blocks"
      [] code = "TxMsg" -> "txns"
      [] OTHER -> "misc"

\* the switch of ReadMsg and of WriteMsg: the first case that matches
MeterFor(version, code) ==
    IF code = "BlockHeadersMsg" THEN "headers"
    ELSE IF code = "BlockBodiesMsg" THEN "bodies"
    ELSE IF version >= btp63 /\ code = "NodeDataMsg" THEN "states"
    ELSE IF version >= btp63 /\ code = "ReceiptsMsg" THEN "receipts"
    ELSE IF code = "NewBlockHashesMsg" THEN "hashes"
    ELSE IF code = "NewBlockMsg" THEN "blocks"
    ELSE IF code = "TxMsg" THEN "txns"
    ELSE "misc"

Mark(meters, kind, size) ==
    [packets |-> [meters.packets EXCEPT ![kind] = @ + 1],
     traffic |-> [meters.traffic EXCEPT ![kind] = @ + size]]

\* the wrapped stream returns a message or an error
ReadMsg(s, msg, failed) ==
    /\ mtCalls < MaxMsgs
    /\ mtCalls' = mtCalls + 1
    /\ mtLast' = [op |-> "ReadMsg", stream |-> s, Code |-> msg.Code, Size |-> msg.Size,
                  err |-> failed]
    /\ IF failed
         THEN UNCHANGED <<mtIn, mtReads>>
         ELSE /\ mtIn' = Mark(mtIn, MeterFor(mtVersion[s], msg.Code), msg.Size)
              /\ mtReads' = mtReads + 1
    /\ UNCHANGED <<mtVersion, mtOut>>
    /\ UNCHANGED notMeter

\* the meters are marked before the message is handed to the wrapped stream,
\* whatever that stream then returns
WriteMsg(s, msg) ==
    /\ mtCalls < MaxMsgs
    /\ mtCalls' = mtCalls + 1
    /\ mtLast' = [op |-> "WriteMsg", stream |-> s, Code |-> msg.Code, Size |-> msg.Size,
                  err |-> FALSE]
    /\ mtOut' = Mark(mtOut, MeterFor(mtVersion[s], msg.Code), msg.Size)
    /\ UNCHANGED <<mtVersion, mtIn, mtReads>>
    /\ UNCHANGED notMeter

MeterNext ==
    \/ \E s \in Streams, version \in Versions : MeterInitStream(s, version)
    \/ \E s \in Streams, msg \in Msgs, failed \in BOOLEAN : ReadMsg(s, msg, failed)
    \/ \E s \in Streams, msg \in Msgs : WriteMsg(s, msg)

RECURSIVE SumOver(_, _)
SumOver(f, S) ==
    IF S = {} THEN 0 ELSE LET x == CHOOSE y \in S : TRUE IN f[x] + SumOver(f, S \ {x})

\* the kind on which a message read from stream s is to be counted
KindOf(s, code) ==
    CASE code = "BlockHeadersMsg" -> "headers"
      [] code = "BlockBodiesMsg" -> "bodies"
      [] code = "NodeDataMsg" -> IF mtVersion[s] >= 63 THEN "states" ELSE "misc"
      [] code = "ReceiptsMsg" -> IF mtVersion[s] >= 63 THEN "receipts" ELSE "misc"
      [] code = "NewBlockHashesMsg" -> "hashes"
      [] code = "NewBlockMsg" -> "blocks"
      [] code = "TxMsg" -> "txns"
      [] OTHER -> "misc"

\* a ReadMsg that returned a message marked one packets meter by 1 and the
\* traffic meter of the same kind by the size, and no other meter
ReadMarksOnce ==
    (mtLast'.op = "ReadMsg" /\ mtCalls' # mtCalls /\ ~mtLast'.err) =>
        LET kind == KindOf(mtLast'.stream, mtLast'.Code) IN
        /\ mtIn'.packets = [mtIn.packets EXCEPT ![kind] = @ + 1]
        /\ mtIn'.traffic = [mtIn.traffic EXCEPT ![kind] = @ + mtLast'.Size]
        /\ mtOut' = mtOut

\* a ReadMsg that failed marked no meter
FailedReadMarksNothing ==
    (mtLast'.op = "ReadMsg" /\ mtCalls' # mtCalls /\ mtLast'.err) =>
        mtIn' = mtIn /\ mtOut' = mtOut

\* C29: each ReadMsg that returns a message marks exactly one inbound packets
\* meter by 1 and the matching inbound traffic meter by the message size, a
\* failed ReadMsg marks no meter, and the inbound packets meters add up to the
\* number of successful reads; NodeData and Receipts messages go to the state and
\* receipt meters when the initialised version is at least 63 and to the misc
\* meters otherwise, also before Init.
C29_EveryReadCountedOnce ==
    /\ [][ReadMarksOnce]_vars
    /\ [][FailedReadMarksNothing]_vars
    /\ [](SumOver(mtIn.packets, MeterKinds) = mtReads)

\* a NodeData message was counted on the misc meters before Init and another on
\* the state meters of a stream initialised with version 63
C29_Witness ==
    /\ mtIn.packets["misc"] = 1
    /\ mtIn.packets["states"] = 1
    /\ mtIn.traffic["states"] = 2
    /\ mtReads = 2
    /\ mtCalls = 2
    /\ mtLast.op = "ReadMsg" /\ mtLast.Code = "NodeDataMsg" /\ mtLast.stream = 1
    /\ mtVersion[1] = 63 /\ mtVersion[2] = 0
    /\ SumOver(mtOut.packets, MeterKinds) = 0

(* ====================================================================== *)
(* Specifications                                                          *)
(* ====================================================================== *)

InitLifeSpec == LifeInit /\ ImportQuiet /\ MinerQuiet /\ PowQuiet /\ SyncQuiet /\ ChainQuiet /\ TxPoolQuiet /\ FetcherQuiet /\ DifficultyQuiet /\ AbiQuiet /\ UrlQuiet /\ RpcQuiet /\ PreserveQuiet /\ StorageQuiet /\ CodecQuiet /\ MeterQuiet

SpecLife == InitLifeSpec /\ [][LifeNext]_vars

InitImportSpec == ImportInit /\ LifeQuiet /\ MinerQuiet /\ PowQuiet /\ SyncQuiet /\ ChainQuiet /\ TxPoolQuiet /\ FetcherQuiet /\ DifficultyQuiet /\ AbiQuiet /\ UrlQuiet /\ RpcQuiet /\ PreserveQuiet /\ StorageQuiet /\ CodecQuiet /\ MeterQuiet

\* ImportChain is one call that runs to its return
SpecImport == InitImportSpec /\ [][ImportNext]_vars /\ WF_vars(ImportNext)

InitMinerSpec == MinerInit /\ LifeQuiet /\ ImportQuiet /\ PowQuiet /\ SyncQuiet /\ ChainQuiet /\ TxPoolQuiet /\ FetcherQuiet /\ DifficultyQuiet /\ AbiQuiet /\ UrlQuiet /\ RpcQuiet /\ PreserveQuiet /\ StorageQuiet /\ CodecQuiet /\ MeterQuiet

\* the miner control API under concurrent callers
SpecMiner == InitMinerSpec /\ [][MinerNext]_vars

\* the miner is started and stopped and its address configured
InitMiningSpec == MiningInit /\ LifeQuiet /\ ImportQuiet /\ PowQuiet /\ SyncQuiet /\ ChainQuiet /\ TxPoolQuiet /\ FetcherQuiet /\ DifficultyQuiet /\ AbiQuiet /\ UrlQuiet /\ RpcQuiet /\ PreserveQuiet /\ StorageQuiet /\ CodecQuiet /\ MeterQuiet

SpecMining == InitMiningSpec /\ [][MiningNext]_vars

InitPoolSpec == PoolInit /\ LifeQuiet /\ ImportQuiet /\ PowQuiet /\ SyncQuiet /\ ChainQuiet /\ TxPoolQuiet /\ FetcherQuiet /\ DifficultyQuiet /\ AbiQuiet /\ UrlQuiet /\ RpcQuiet /\ PreserveQuiet /\ StorageQuiet /\ CodecQuiet /\ MeterQuiet

\* transactions arriving from the API and the network while the price is changed
SpecPool == InitPoolSpec /\ [][PoolNext]_vars

InitPowSpec == PowInit /\ LifeQuiet /\ ImportQuiet /\ MinerQuiet /\ SyncQuiet /\ ChainQuiet /\ TxPoolQuiet /\ FetcherQuiet /\ DifficultyQuiet /\ AbiQuiet /\ UrlQuiet /\ RpcQuiet /\ PreserveQuiet /\ StorageQuiet /\ CodecQuiet /\ MeterQuiet

\* the remote-miner API under concurrent callers, with the engine being closed
SpecPow == InitPowSpec /\ [][PowNext]_vars

\* the same with the scheduling of the goroutines: a call that can step does, the
\* sealer loop serves what it accepted, and Close closes the exit channel once
\* the sealer loop has answered it
InitPowFairSpec == PowFairInit /\ LifeQuiet /\ ImportQuiet /\ MinerQuiet /\ SyncQuiet /\ ChainQuiet /\ TxPoolQuiet /\ FetcherQuiet /\ DifficultyQuiet /\ AbiQuiet /\ UrlQuiet /\ RpcQuiet /\ PreserveQuiet /\ StorageQuiet /\ CodecQuiet /\ MeterQuiet

SpecPowFair ==
    /\ InitPowFairSpec
    /\ [][PowNext]_vars
    /\ \A c \in Callers : WF_vars(PowCallSteps(c))
    /\ WF_vars(RemoteSteps)
    /\ WF_vars(CloseExitCh)

InitSyncSpec == SyncInit /\ LifeQuiet /\ ImportQuiet /\ MinerQuiet /\ PowQuiet /\ ChainQuiet /\ TxPoolQuiet /\ FetcherQuiet /\ DifficultyQuiet /\ AbiQuiet /\ UrlQuiet /\ RpcQuiet /\ PreserveQuiet /\ StorageQuiet /\ CodecQuiet /\ MeterQuiet

\* head rewinds requested through the API backend while the downloader synchronises
SpecSync == InitSyncSpec /\ [][SyncNext]_vars

InitChainSpec == ChainInit /\ LifeQuiet /\ ImportQuiet /\ MinerQuiet /\ PowQuiet /\ SyncQuiet /\ TxPoolQuiet /\ FetcherQuiet /\ DifficultyQuiet /\ AbiQuiet /\ UrlQuiet /\ RpcQuiet /\ PreserveQuiet /\ StorageQuiet /\ CodecQuiet /\ MeterQuiet

\* inserts and head rewinds of the block chain, with the ENR updater listening
SpecChain == InitChainSpec /\ [][ChainNext]_vars

InitTxPoolSpec == TxPoolInit /\ LifeQuiet /\ ImportQuiet /\ MinerQuiet /\ PowQuiet /\ SyncQuiet /\ ChainQuiet /\ FetcherQuiet /\ DifficultyQuiet /\ AbiQuiet /\ UrlQuiet /\ RpcQuiet /\ PreserveQuiet /\ StorageQuiet /\ CodecQuiet /\ MeterQuiet

\* admissions, replacements, evictions, reprices and new blocks on the transaction pool
SpecTxPool == InitTxPoolSpec /\ [][TxPoolNext]_vars

InitFetcherSpec == FetcherInit /\ LifeQuiet /\ ImportQuiet /\ MinerQuiet /\ PowQuiet /\ SyncQuiet /\ ChainQuiet /\ TxPoolQuiet /\ DifficultyQuiet /\ AbiQuiet /\ UrlQuiet /\ RpcQuiet /\ PreserveQuiet /\ StorageQuiet /\ CodecQuiet /\ MeterQuiet

\* block announcements, fetches, timeouts and imports in the fetcher
SpecFetcher == InitFetcherSpec /\ [][FetcherNext]_vars

InitDifficultySpec == DifficultyInit /\ LifeQuiet /\ ImportQuiet /\ MinerQuiet /\ PowQuiet /\ SyncQuiet /\ ChainQuiet /\ TxPoolQuiet /\ FetcherQuiet /\ AbiQuiet /\ UrlQuiet /\ RpcQuiet /\ PreserveQuiet /\ StorageQuiet /\ CodecQuiet /\ MeterQuiet

\* CalcDifficulty applied to two candidate children of a parent
SpecDifficulty == InitDifficultySpec /\ [][DifficultyNext]_vars

InitAbiSpec == AbiInit /\ LifeQuiet /\ ImportQuiet /\ MinerQuiet /\ PowQuiet /\ SyncQuiet /\ ChainQuiet /\ TxPoolQuiet /\ FetcherQuiet /\ DifficultyQuiet /\ UrlQuiet /\ RpcQuiet /\ PreserveQuiet /\ StorageQuiet /\ CodecQuiet /\ MeterQuiet

\* an ABI document is parsed and its methods are asked for signature and id
SpecAbi == InitAbiSpec /\ [][AbiNext]_vars

InitUrlSpec == UrlInit /\ LifeQuiet /\ ImportQuiet /\ MinerQuiet /\ PowQuiet /\ SyncQuiet /\ ChainQuiet /\ TxPoolQuiet /\ FetcherQuiet /\ DifficultyQuiet /\ AbiQuiet /\ RpcQuiet /\ PreserveQuiet /\ StorageQuiet /\ CodecQuiet /\ MeterQuiet

\* an account URL is printed and parsed back
SpecUrl == InitUrlSpec /\ [][UrlNext]_vars

InitRpcSpec == RpcInit /\ LifeQuiet /\ ImportQuiet /\ MinerQuiet /\ PowQuiet /\ SyncQuiet /\ ChainQuiet /\ TxPoolQuiet /\ FetcherQuiet /\ DifficultyQuiet /\ AbiQuiet /\ UrlQuiet /\ PreserveQuiet /\ StorageQuiet /\ CodecQuiet /\ MeterQuiet

\* a node starts its endpoints and clients attach and call
SpecRpc == InitRpcSpec /\ [][RpcNext]_vars

InitPreserveSpec == PreserveInit /\ LifeQuiet /\ ImportQuiet /\ MinerQuiet /\ PowQuiet /\ SyncQuiet /\ ChainQuiet /\ TxPoolQuiet /\ FetcherQuiet /\ DifficultyQuiet /\ AbiQuiet /\ UrlQuiet /\ RpcQuiet /\ StorageQuiet /\ CodecQuiet /\ MeterQuiet

\* shouldPreserve applied to a block
SpecPreserve == InitPreserveSpec /\ [][PreserveNext]_vars

InitStorageSpec == StorageInit /\ LifeQuiet /\ ImportQuiet /\ MinerQuiet /\ PowQuiet /\ SyncQuiet /\ ChainQuiet /\ TxPoolQuiet /\ FetcherQuiet /\ DifficultyQuiet /\ AbiQuiet /\ UrlQuiet /\ RpcQuiet /\ PreserveQuiet /\ CodecQuiet /\ MeterQuiet

\* a client pages through a storage trie with storageRangeAt
SpecStorage == InitStorageSpec /\ [][StorageNext]_vars

InitCodecSpec == CodecInit /\ LifeQuiet /\ ImportQuiet /\ MinerQuiet /\ PowQuiet /\ SyncQuiet /\ ChainQuiet /\ TxPoolQuiet /\ FetcherQuiet /\ DifficultyQuiet /\ AbiQuiet /\ UrlQuiet /\ RpcQuiet /\ PreserveQuiet /\ StorageQuiet /\ MeterQuiet

\* parsing an ABI document, packing calls and looking methods up by id
SpecCodec == InitCodecSpec /\ [][CodecNext]_vars

InitMeterSpec == MeterInit /\ LifeQuiet /\ ImportQuiet /\ MinerQuiet /\ PowQuiet /\ SyncQuiet /\ ChainQuiet /\ TxPoolQuiet /\ FetcherQuiet /\ DifficultyQuiet /\ AbiQuiet /\ UrlQuiet /\ RpcQuiet /\ PreserveQuiet /\ StorageQuiet /\ CodecQuiet

\* messages are read from and written to metered streams
SpecMeter == InitMeterSpec /\ [][MeterNext]_vars

====
